---- MODULE Spec2Model ----
(***************************************************************************)
(* Fault-tolerant access layer of the Azure DevOps MCP server:             *)
(*   src/src/circuit_breaker.py  CircuitBreaker                            *)
(*   src/src/azure_client.py     AzureDevOpsClient._request_with_retry     *)
(*   src/src/rate_limiter.py     RateLimiter                               *)
(*   src/function_app.py         the tool handlers                         *)
(*                                                                         *)
(* Time is the monotonic clock in whole ticks.  Every CircuitBreaker       *)
(* method body runs under self._lock, so each method is one atomic step.   *)
(*                                                                         *)
(* SpecBreaker  a CircuitBreaker of any configuration, driven through its  *)
(*              four methods in any order.                                 *)
(* Spec         one logical client call after another on the singleton     *)
(*              breaker, interleaved with the breaker calls of the other   *)
(*              concurrent logical calls and with the health check.        *)
(* SpecLimiter  a RateLimiter of any configuration, checked for one key    *)
(*              after another by sequential callers.                       *)
(* SpecHandler  one tool invocation after another: rate-limit check, then  *)
(*              the logical client calls of the handler.                   *)
(* SpecRecovery SpecBreaker while the clock advances, calls keep coming    *)
(*              and the calls admitted succeed (weak fairness).            *)
(* SpecLimiterConcurrent                                                   *)
(*              two callers inside RateLimiter.check at once: the clock    *)
(*              is read before the lock is taken.                          *)
(* SpecSingletons                                                          *)
(*              two callers inside the lazy getters of the breaker and     *)
(*              the limiter.                                               *)
(* SpecPaths    one _request_with_retry call and one get_text call given   *)
(*              the same breaker and the same responses.                   *)
(* SpecLocks    two concurrent invocations, limiter check then client      *)
(*              call, with the acquisition of each lock as a step.         *)
(***************************************************************************)
EXTENDS Integers, Sequences, FiniteSets, TLC

VARIABLES
    now,                \* time.monotonic()
    failure_threshold,  \* CircuitBreaker._failure_threshold
    cooldown_seconds,   \* CircuitBreaker._cooldown_seconds
    success_threshold,  \* CircuitBreaker._success_threshold
    cb,                 \* CircuitBreaker._state/_failure_count/_success_count/_opened_at
    last,               \* history: the last CircuitBreaker method called and what it returned
    streak,             \* history: RecordFailure calls since the breaker was Closed with
                        \*          failure_count = 0 (-1: no such run is being counted)
    trip,               \* history: when, and from which state, a failure last had to open it
    probes,             \* history: RecordSuccess calls since the breaker became HalfOpen
    retry_attempts,     \* AzureDevOpsClient._retry_attempts
    retry_delay,        \* AzureDevOpsClient._retry_delay
    call,               \* the logical client call under observation: position and history
    max_requests,       \* RateLimiter._max
    window_seconds,     \* RateLimiter._window
    requests,           \* RateLimiter._requests: user_key -> timestamps (no entry: empty)
    checked,            \* history: the last RateLimiter.check call and what it returned
    log,                \* history: per key, the times of the allowed checks that are less
                        \*          than window_seconds old
    alone,              \* history: per key, the store of a limiter that is given the
                        \*          checks of that key only
    tool,               \* the tool invocation under observation: position and history
    thread,             \* per concurrent caller: where it is in its call, and its locals
    locks,              \* the owner of RateLimiter._lock and of CircuitBreaker._lock
    granted,            \* history: per key and timestamp, the checks that recorded that
                        \*          timestamp and returned True
    lazy,               \* the module globals _circuit_breaker and _rate_limiter, and the
                        \*          callers inside their getters
    paths               \* one _request_with_retry call and one get_text call that are
                        \*          given the same breaker and the same responses

vars == <<now, failure_threshold, cooldown_seconds, success_threshold, cb, last, streak,
          trip, probes, retry_attempts, retry_delay, call, max_requests, window_seconds,
          requests, checked, log, alone, tool, thread, locks, granted, lazy, paths>>

hist == <<last, streak, trip, probes>>

cbConfig == <<failure_threshold, cooldown_seconds, success_threshold>>
clientConfig == <<retry_attempts, retry_delay>>
limiterConfig == <<max_requests, window_seconds>>
limiter == <<limiterConfig, requests, checked, log, alone>>
threads == <<thread, locks, granted, lazy, paths>>
front == <<limiter, tool, threads>>

----------------------------------------------------------------------------
(* Bounds of the model *)

MaxTime == 4            \* the clock stops ticking here
MaxThreshold == 2       \* the thresholds range over 0..MaxThreshold (1..MaxThreshold in Spec)
MaxCooldown == 2        \* cooldown_seconds ranges over 0..MaxCooldown (is MaxCooldown in Spec)
MaxAttempts == 3        \* retry_attempts ranges over 0..MaxAttempts
MaxRetryDelay == 1      \* retry_delay, in ticks
MaxRetryAfter == 2      \* numeric Retry-After headers range over -1..MaxRetryAfter
MaxRequests == 2        \* max_requests ranges over 0..MaxRequests
MaxWindow == 3          \* window_seconds ranges over 1..MaxWindow
MaxLogs == 1            \* log files fetched by one get_run_failure_logs invocation

----------------------------------------------------------------------------
(* src/src/circuit_breaker.py *)

CLOSED == "closed"
OPEN == "open"
HALF_OPEN == "half_open"
CircuitState == {CLOSED, OPEN, HALF_OPEN}

\* CircuitBreaker.__init__
NewCircuitBreaker ==
    [state |-> CLOSED, failure_count |-> 0, success_count |-> 0, opened_at |-> 0]

\* Variant: the lazy transition restarts the cooldown clock.
maybe_transition_restamps(b, t, cooldown) ==
    IF b.state = OPEN /\ t - b.opened_at >= cooldown
    THEN [b EXCEPT !.state = HALF_OPEN, !.success_count = 0, !.opened_at = t]
    ELSE b

\* Variant: the cooldown boundary taken as exclusive.
maybe_transition_strict(b, t, cooldown) ==
    IF b.state = OPEN /\ t - b.opened_at > cooldown
    THEN [b EXCEPT !.state = HALF_OPEN, !.success_count = 0]
    ELSE b

\* CircuitBreaker._maybe_transition_to_half_open, at clock reading t
maybe_transition_to_half_open(b, t, cooldown) ==
    IF b.state = OPEN /\ t - b.opened_at >= cooldown
    THEN [b EXCEPT !.state = HALF_OPEN, !.success_count = 0]
    ELSE b

\* CircuitBreaker.state: the breaker after the call; the value returned is its .state
state_after(b, t, cooldown) == maybe_transition_to_half_open(b, t, cooldown)

\* CircuitBreaker.allow_request: the value returned, given the breaker after the lazy check
allow_request_result(b) ==
    IF b.state = CLOSED THEN TRUE
    ELSE IF b.state = HALF_OPEN THEN TRUE
    ELSE FALSE

\* Variant: a success reported while Open closes the breaker.
record_success_closes_open(b, sthreshold) ==
    IF b.state = HALF_OPEN
    THEN IF b.success_count + 1 >= sthreshold
         THEN [b EXCEPT !.state = CLOSED, !.failure_count = 0, !.success_count = 0]
         ELSE [b EXCEPT !.success_count = b.success_count + 1]
    ELSE IF b.state = CLOSED
    THEN [b EXCEPT !.failure_count = 0]
    ELSE [b EXCEPT !.state = CLOSED, !.failure_count = 0, !.success_count = 0]

\* Variant: closing the breaker without resetting failure_count.
record_success_keeps_failures(b, sthreshold) ==
    IF b.state = HALF_OPEN
    THEN IF b.success_count + 1 >= sthreshold
         THEN [b EXCEPT !.state = CLOSED, !.success_count = 0]
         ELSE [b EXCEPT !.success_count = b.success_count + 1]
    ELSE IF b.state = CLOSED
    THEN [b EXCEPT !.failure_count = 0]
    ELSE b

\* Variant: the success threshold compared with > instead of >=.
record_success_closes_late(b, sthreshold) ==
    IF b.state = HALF_OPEN
    THEN IF b.success_count + 1 > sthreshold
         THEN [b EXCEPT !.state = CLOSED, !.failure_count = 0, !.success_count = 0]
         ELSE [b EXCEPT !.success_count = b.success_count + 1]
    ELSE IF b.state = CLOSED
    THEN [b EXCEPT !.failure_count = 0]
    ELSE b

\* Variant: a success reported while Closed leaves failure_count as it is.
record_success_no_reset(b, sthreshold) ==
    IF b.state = HALF_OPEN
    THEN IF b.success_count + 1 >= sthreshold
         THEN [b EXCEPT !.state = CLOSED, !.failure_count = 0, !.success_count = 0]
         ELSE [b EXCEPT !.success_count = b.success_count + 1]
    ELSE b

\* CircuitBreaker.record_success
record_success(b, sthreshold) ==
    IF b.state = HALF_OPEN
    THEN IF b.success_count + 1 >= sthreshold
         THEN [b EXCEPT !.state = CLOSED, !.failure_count = 0, !.success_count = 0]
         ELSE [b EXCEPT !.success_count = b.success_count + 1]
    ELSE IF b.state = CLOSED
    THEN [b EXCEPT !.failure_count = 0]
    ELSE b

\* Variant: a failure reported while Open restarts the cooldown.
record_failure_extends_cooldown(b, t, fthreshold) ==
    IF b.state = HALF_OPEN
    THEN [b EXCEPT !.state = OPEN, !.opened_at = t, !.success_count = 0]
    ELSE IF b.state = CLOSED
    THEN IF b.failure_count + 1 >= fthreshold
         THEN [b EXCEPT !.failure_count = b.failure_count + 1, !.state = OPEN, !.opened_at = t]
         ELSE [b EXCEPT !.failure_count = b.failure_count + 1]
    ELSE [b EXCEPT !.opened_at = t]

\* Variant: a failed probe reopens without resetting success_count.
record_failure_keeps_successes(b, t, fthreshold) ==
    IF b.state = HALF_OPEN
    THEN [b EXCEPT !.state = OPEN, !.opened_at = t]
    ELSE IF b.state = CLOSED
    THEN IF b.failure_count + 1 >= fthreshold
         THEN [b EXCEPT !.failure_count = b.failure_count + 1, !.state = OPEN, !.opened_at = t]
         ELSE [b EXCEPT !.failure_count = b.failure_count + 1]
    ELSE b

\* Variant: the threshold compared with > instead of >=.
record_failure_opens_late(b, t, fthreshold) ==
    IF b.state = HALF_OPEN
    THEN [b EXCEPT !.state = OPEN, !.opened_at = t, !.success_count = 0]
    ELSE IF b.state = CLOSED
    THEN IF b.failure_count + 1 > fthreshold
         THEN [b EXCEPT !.failure_count = b.failure_count + 1, !.state = OPEN, !.opened_at = t]
         ELSE [b EXCEPT !.failure_count = b.failure_count + 1]
    ELSE b

\* Variant: a failed probe reopens without a fresh opened_at.
record_failure_stale_opened_at(b, t, fthreshold) ==
    IF b.state = HALF_OPEN
    THEN [b EXCEPT !.state = OPEN, !.success_count = 0]
    ELSE IF b.state = CLOSED
    THEN IF b.failure_count + 1 >= fthreshold
         THEN [b EXCEPT !.failure_count = b.failure_count + 1, !.state = OPEN, !.opened_at = t]
         ELSE [b EXCEPT !.failure_count = b.failure_count + 1]
    ELSE b

\* CircuitBreaker.record_failure, at clock reading t
record_failure(b, t, fthreshold) ==
    IF b.state = HALF_OPEN
    THEN [b EXCEPT !.state = OPEN, !.opened_at = t, !.success_count = 0]
    ELSE IF b.state = CLOSED
    THEN IF b.failure_count + 1 >= fthreshold
         THEN [b EXCEPT !.failure_count = b.failure_count + 1, !.state = OPEN, !.opened_at = t]
         ELSE [b EXCEPT !.failure_count = b.failure_count + 1]
    ELSE b

----------------------------------------------------------------------------
(* src/src/rate_limiter.py *)

\* user_key = principal_id or principal_name or "anonymous"
UserKeys == {"anonymous", "oid-1"}

\* RateLimiter.__init__: no key has an entry
NewRequests == [k \in UserKeys |-> << >>]

\* Variant: the timestamp exactly window_seconds old is kept.
retained_inclusive(timestamps, cutoff) == SelectSeq(timestamps, LAMBDA t : t >= cutoff)

\* [t for t in timestamps if t > cutoff]
retained(timestamps, cutoff) == SelectSeq(timestamps, LAMBDA t : t > cutoff)

\* Variant: one list of timestamps for all the keys.
get_timestamps_shared(reqs, user_key) ==
    reqs[CHOOSE k \in DOMAIN reqs : \A j \in DOMAIN reqs : Len(reqs[j]) <= Len(reqs[k])]

\* self._requests.get(user_key, [])
get_timestamps(reqs, user_key) == reqs[user_key]

\* Variant: the quota compared with > instead of >=.
check_one_more(reqs, user_key, t, max, window) ==
    LET cutoff == t - window
        timestamps == retained(get_timestamps(reqs, user_key), cutoff)
    IN  IF Len(timestamps) > max
        THEN [requests |-> [reqs EXCEPT ![user_key] = timestamps], allowed |-> FALSE]
        ELSE [requests |-> [reqs EXCEPT ![user_key] = Append(timestamps, t)],
              allowed |-> TRUE]

\* Variant: a denied check records its timestamp too.
check_records_denied(reqs, user_key, t, max, window) ==
    LET cutoff == t - window
        timestamps == retained(get_timestamps(reqs, user_key), cutoff)
    IN  IF Len(timestamps) >= max
        THEN [requests |-> [reqs EXCEPT ![user_key] = Append(timestamps, t)],
              allowed |-> FALSE]
        ELSE [requests |-> [reqs EXCEPT ![user_key] = Append(timestamps, t)],
              allowed |-> TRUE]

\* RateLimiter.check with the clock reading t: the store after the call and the value
\* returned.
check(reqs, user_key, t, max, window) ==
    LET cutoff == t - window
        timestamps == retained(get_timestamps(reqs, user_key), cutoff)
    IN  IF Len(timestamps) >= max
        THEN [requests |-> [reqs EXCEPT ![user_key] = timestamps], allowed |-> FALSE]
        ELSE [requests |-> [reqs EXCEPT ![user_key] = Append(timestamps, t)],
              allowed |-> TRUE]

----------------------------------------------------------------------------
(* History of the limiter calls *)

NoCheck == [key |-> "none", seq |-> 0, at |-> 0, allowed |-> FALSE, pruned |-> {}]

\* The elements of a sequence.
Range(seq) == {seq[i] : i \in DOMAIN seq}

\* The record of one more check, of user_key at time t, that took the store to reqs2:
\* pruned are the stored timestamps it dropped (the timestamp it appended is none of
\* the stored ones).
Checked(user_key, t, reqs2, allowed) ==
    LET new == reqs2[user_key]
        kept == IF allowed THEN SubSeq(new, 1, Len(new) - 1) ELSE new
    IN  [key |-> user_key, seq |-> 1 - checked.seq, at |-> t, allowed |-> allowed,
         pruned |-> Range(requests[user_key]) \ Range(kept)]

\* The times in a list that are less than window old at time t.
Recent(times, t, window) == SelectSeq(times, LAMBDA x : t - x < window)

\* The allowed checks less than window_seconds old, after a check of user_key at time t.
LogAfter(user_key, t, allowed) ==
    IF allowed
    THEN [log EXCEPT ![user_key] = Recent(Append(@, t), t, window_seconds)]
    ELSE log

\* The limiter that sees the checks of one key only, and its store after a check.
NewAlone == [k \in UserKeys |-> [j \in {k} |-> << >>]]

AloneAfter(user_key, t) ==
    [alone EXCEPT ![user_key] = check(@, user_key, t, max_requests, window_seconds).requests]

\* The history after a check of user_key at time t with result res.
HistCheck(user_key, t, res) ==
    /\ checked' = Checked(user_key, t, res.requests, res.allowed)
    /\ log' = LogAfter(user_key, t, res.allowed)
    /\ alone' = AloneAfter(user_key, t)

----------------------------------------------------------------------------
(* History of the breaker calls *)

NoOp == [op |-> "none", seq |-> 0, allowed |-> FALSE, observed |-> CLOSED]
NoTrip == [at |-> 0, from |-> "none"]

\* The record of one more call of a breaker method.
Called(op, b2) ==
    [op |-> op, seq |-> 1 - last.seq,
     allowed |-> (op = "allow_request" /\ allow_request_result(b2)),
     observed |-> b2.state]

\* The run of failures counted from a Closed breaker with failure_count = 0.
StreakAfterFailure(b) ==
    IF b.state = CLOSED /\ b.failure_count = 0 THEN 1
    ELSE IF streak >= 0 /\ b.state = CLOSED THEN streak + 1
    ELSE -1

StreakAfterSuccess(b2) ==
    IF b2.state = CLOSED /\ b2.failure_count = 0 THEN 0 ELSE -1

\* A failure that ends a run of failure_threshold failures, or that hits a HalfOpen
\* breaker, is one that has to open it.
TripAfterFailure(b, t) ==
    IF b.state = HALF_OPEN THEN [at |-> t, from |-> HALF_OPEN]
    ELSE IF failure_threshold >= 1 /\ StreakAfterFailure(b) = failure_threshold
    THEN [at |-> t, from |-> CLOSED]
    ELSE trip

ProbesAfter(b, b2, success) ==
    IF b2.state # HALF_OPEN THEN 0
    ELSE IF b.state # HALF_OPEN THEN 0
    ELSE IF success THEN probes + 1
    ELSE probes

\* The history after a breaker method took the breaker from b to b2 at clock reading t.
HistAllow(b, b2) ==
    /\ last' = Called("allow_request", b2)
    /\ probes' = ProbesAfter(b, b2, FALSE)
    /\ UNCHANGED <<streak, trip>>

HistState(b, b2) ==
    /\ last' = Called("state", b2)
    /\ probes' = ProbesAfter(b, b2, FALSE)
    /\ UNCHANGED <<streak, trip>>

HistSuccess(b, b2) ==
    /\ last' = Called("record_success", b2)
    /\ streak' = StreakAfterSuccess(b2)
    /\ probes' = ProbesAfter(b, b2, TRUE)
    /\ UNCHANGED trip

HistFailure(b, b2, t) ==
    /\ last' = Called("record_failure", b2)
    /\ streak' = StreakAfterFailure(b)
    /\ trip' = TripAfterFailure(b, t)
    /\ probes' = ProbesAfter(b, b2, FALSE)

----------------------------------------------------------------------------
(* The breaker driven directly through its four methods *)

\* The client call under observation; the other concurrent calls show only as the
\* breaker methods they call.  found is the stored state of the breaker when the call
\* began, before its admission check.
IdleCall == [pc |-> "idle", attempt |-> 0, requests |-> 0, sleeps |-> 0,
             successes |-> 0, failures |-> 0, retried |-> 0, status |-> 0,
             header |-> "absent", value |-> 0, seconds |-> 0, wake_at |-> 0,
             error |-> "none", found |-> "none"]

\* The tool invocation under observation: which handler runs for which user, how many
\* times it has called RateLimiter.check and begun a logical client call, how many log
\* files it has to fetch, and what it returned.
IdleTool == [pc |-> "idle", name |-> "none", user_key |-> "none", checks |-> 0,
             calls |-> 0, logs |-> 0, result |-> "none"]

\* The concurrent callers (threads) of the shared limiter and breaker.
Callers == {"A", "B"}

\* A caller that is in none of the calls; user_key and t are the argument and the local
\* now of its RateLimiter.check, attempt the loop variable of its client call.
IdleThread == [pc |-> "idle", user_key |-> "none", t |-> 0, attempt |-> 0]

\* threading.Lock(): not held
FreeLocks == [limiter |-> "free", breaker |-> "free"]

\* No check has returned True.
NoneGranted == [k \in UserKeys |-> [t \in 0..MaxTime |-> 0]]

\* The module globals behind the lazy getters.
Singletons == {"_circuit_breaker", "_rate_limiter"}

\* _circuit_breaker = None, _rate_limiter = None (0: None; the objects constructed are
\* numbered from 1): built counts the objects constructed, used are the objects a method
\* has been called on, and each caller is outside the getter holding what it last
\* returned to it.
NewLazy == [g \in Singletons |->
               [global |-> 0, built |-> 0, used |-> {},
                caller |-> [c \in Callers |-> [pc |-> "out", got |-> 0]]]]

\* A client call that has not begun: attempt is the loop variable, resp the status of
\* the response bound to resp (-1: unbound), cb and t the breaker and the clock as the
\* call has them, steps what it has done so far, outcome how it ended.
IdleRun == [pc |-> "idle", attempt |-> 0, resp |-> -1, cb |-> NewCircuitBreaker, t |-> 0,
            steps |-> << >>, outcome |-> "none"]

IdlePaths == [json |-> IdleRun, text |-> IdleRun]

\* No limiter call and no tool invocation has been made, and no concurrent caller has
\* begun.
FrontIdle ==
    /\ requests = NewRequests
    /\ checked = NoCheck
    /\ log = NewRequests
    /\ alone = NewAlone
    /\ tool = IdleTool
    /\ thread = [c \in Callers |-> IdleThread]
    /\ locks = FreeLocks
    /\ granted = NoneGranted
    /\ lazy = NewLazy
    /\ paths = IdlePaths

InitBreaker ==
    /\ now = 0
    /\ failure_threshold \in 0..MaxThreshold
    /\ cooldown_seconds \in 0..MaxCooldown
    /\ success_threshold \in 0..MaxThreshold
    /\ cb = NewCircuitBreaker
    /\ last = NoOp
    /\ streak = 0
    /\ trip = NoTrip
    /\ probes = 0
    /\ retry_attempts = 0
    /\ retry_delay = 0
    /\ call = IdleCall
    /\ max_requests = 0
    /\ window_seconds = 0
    /\ FrontIdle

\* The monotonic clock advances.
Tick ==
    /\ now < MaxTime
    /\ now' = now + 1
    /\ log' = [k \in UserKeys |-> Recent(log[k], now + 1, window_seconds)]
    /\ UNCHANGED <<cbConfig, cb, hist, clientConfig, call, limiterConfig, requests,
                   checked, alone, tool, threads>>

\* Variant: allow_request without the lazy cool-down check.
AllowRequestUnchecked ==
    /\ cb' = cb
    /\ HistAllow(cb, cb')
    /\ UNCHANGED <<now, cbConfig, clientConfig, call, front>>

\* cb.allow_request()
AllowRequest ==
    /\ cb' = maybe_transition_to_half_open(cb, now, cooldown_seconds)
    /\ HistAllow(cb, cb')
    /\ UNCHANGED <<now, cbConfig, clientConfig, call, front>>

\* cb.state
State ==
    /\ cb' = state_after(cb, now, cooldown_seconds)
    /\ HistState(cb, cb')
    /\ UNCHANGED <<now, cbConfig, clientConfig, call, front>>

\* cb.record_success()
RecordSuccess ==
    /\ cb' = record_success(cb, success_threshold)
    /\ HistSuccess(cb, cb')
    /\ UNCHANGED <<now, cbConfig, clientConfig, call, front>>

\* cb.record_failure()
RecordFailure ==
    /\ cb' = record_failure(cb, now, failure_threshold)
    /\ HistFailure(cb, cb', now)
    /\ UNCHANGED <<now, cbConfig, clientConfig, call, front>>

NextBreaker == Tick \/ AllowRequest \/ State \/ RecordSuccess \/ RecordFailure

SpecBreaker == InitBreaker /\ [][NextBreaker]_vars

----------------------------------------------------------------------------
(* src/src/azure_client.py *)

RETRYABLE_STATUS_CODES == {429, 502, 503, 504}

\* The statuses a response may carry, and a physical attempt that gets no response.
Statuses == {200, 304, 404, 429, 500, 502, 503, 504}

\* Retry-After headers: none, a number, or an HTTP-date.
NumericHeaders == -1..MaxRetryAfter
Headers == {"absent", "date"} \cup {"numeric"}

\* float(resp.headers.get("Retry-After", 0)) raises ValueError on text that is no number
float_raises(kind) == kind = "date"

\* float(resp.headers.get("Retry-After", 0)) where it returns
float_retry_after(kind, value) == IF kind = "absent" THEN 0 ELSE value

\* self._retry_delay * (2 ** (attempt - 1)) + random.uniform(0, 1)
backoff(delay, attempt, jitter) == delay * (2 ^ (attempt - 1)) + jitter

\* the delay handed to time.sleep
retry_after_delay(kind, value, delay, attempt, jitter) ==
    IF float_retry_after(kind, value) # 0
    THEN float_retry_after(kind, value)
    ELSE backoff(delay, attempt, jitter)

\* time.sleep raises ValueError on a negative length
sleep_raises(seconds) == seconds < 0

\* Variant: giving up one attempt early.
should_retry_one_less(status, attempt, attempts) ==
    status \in RETRYABLE_STATUS_CODES /\ attempt < attempts - 1

\* Variant: retrying on the last attempt too.
should_retry_through_last(status, attempt, attempts) ==
    status \in RETRYABLE_STATUS_CODES /\ attempt <= attempts

\* resp.status_code in _RETRYABLE_STATUS_CODES and attempt < self._retry_attempts
should_retry(status, attempt, attempts) ==
    status \in RETRYABLE_STATUS_CODES /\ attempt < attempts

\* resp.status_code >= 500: the terminal attempt records a failure, else a success
is_failure_status(status) == status >= 500

\* Variant: only server errors raise.
raise_for_status_server_only(status) == status >= 500 /\ status < 600

\* resp.raise_for_status() raises HTTPError for 4xx and 5xx
raise_for_status(status) == status >= 400 /\ status < 600

\* The client and the breaker singleton as configured from the settings; the singleton
\* of _get_circuit_breaker is built without success_threshold (default 1).
Init ==
    /\ now = 0
    /\ failure_threshold \in 1..MaxThreshold
    /\ cooldown_seconds = MaxCooldown
    /\ success_threshold = 1
    /\ cb = NewCircuitBreaker
    /\ last = NoOp
    /\ streak = 0
    /\ trip = NoTrip
    /\ probes = 0
    /\ retry_attempts \in 0..MaxAttempts
    /\ retry_delay = MaxRetryDelay
    /\ call = IdleCall
    /\ max_requests = MaxRequests
    /\ window_seconds = MaxWindow
    /\ FrontIdle

\* Variant: the result of cb.allow_request() is ignored.
CallUnchecked ==
    /\ call.pc \in {"idle", "done"}
    /\ cb' = maybe_transition_to_half_open(cb, now, cooldown_seconds)
    /\ HistAllow(cb, cb')
    /\ call' = [IdleCall EXCEPT !.pc = "loop", !.attempt = 1, !.found = cb.state]
    /\ UNCHANGED <<now, cbConfig, clientConfig, front>>

\* A logical call begins: cb.allow_request(), ADOUnavailableError when it is denied.
Call ==
    /\ call.pc \in {"idle", "done"}
    /\ cb' = maybe_transition_to_half_open(cb, now, cooldown_seconds)
    /\ HistAllow(cb, cb')
    /\ call' = IF allow_request_result(cb')
               THEN [IdleCall EXCEPT !.pc = "loop", !.attempt = 1, !.found = cb.state]
               ELSE [IdleCall EXCEPT !.pc = "done", !.error = "ADOUnavailableError",
                                     !.found = cb.state]
    /\ UNCHANGED <<now, cbConfig, clientConfig, front>>

\* Variant: the lost connection is reported to the breaker as a failure.
AttemptFailsRecorded ==
    /\ call.pc = "loop"
    /\ call.attempt <= retry_attempts
    /\ cb' = record_failure(cb, now, failure_threshold)
    /\ HistFailure(cb, cb', now)
    /\ call' = [call EXCEPT !.pc = "done", !.requests = @ + 1, !.failures = @ + 1,
                             !.error = "ConnectionError"]
    /\ UNCHANGED <<now, cbConfig, clientConfig, front>>

\* requests.request raises: no response, the exception leaves the call.
AttemptFails ==
    /\ call.pc = "loop"
    /\ call.attempt <= retry_attempts
    /\ call' = [call EXCEPT !.pc = "done", !.requests = @ + 1,
                             !.error = "ConnectionError"]
    /\ UNCHANGED <<now, cbConfig, cb, hist, clientConfig, front>>

\* A retryable response with attempts remaining: compute the delay and sleep.
AttemptRetried(status, kind, value, jitter) ==
    LET got == [call EXCEPT !.requests = @ + 1, !.retried = @ + 1, !.status = status,
                            !.header = kind, !.value = value]
        seconds == retry_after_delay(kind, value, retry_delay, call.attempt, jitter)
    IN  /\ call.pc = "loop"
        /\ call.attempt <= retry_attempts
        /\ should_retry(status, call.attempt, retry_attempts)
        /\ call' = IF float_raises(kind)
                   THEN [got EXCEPT !.pc = "done", !.error = "ValueError"]
                   ELSE IF sleep_raises(seconds)
                   THEN [got EXCEPT !.pc = "done", !.seconds = seconds,
                                    !.error = "ValueError"]
                   ELSE [got EXCEPT !.pc = "sleeping", !.sleeps = @ + 1,
                                    !.seconds = seconds, !.wake_at = now + seconds]
        /\ UNCHANGED <<now, cbConfig, cb, hist, clientConfig, front>>

\* The terminal attempt: record the outcome, then raise_for_status and decode.
AttemptTerminal(status) ==
    LET got == [call EXCEPT !.pc = "done", !.requests = @ + 1, !.status = status,
                            !.retried = IF status \in RETRYABLE_STATUS_CODES
                                        THEN @ + 1 ELSE @,
                            !.error = IF raise_for_status(status)
                                      THEN "HTTPError" ELSE "none"]
    IN  /\ call.pc = "loop"
        /\ call.attempt <= retry_attempts
        /\ ~should_retry(status, call.attempt, retry_attempts)
        /\ IF is_failure_status(status)
           THEN /\ cb' = record_failure(cb, now, failure_threshold)
                /\ HistFailure(cb, cb', now)
                /\ call' = [got EXCEPT !.failures = @ + 1]
           ELSE /\ cb' = record_success(cb, success_threshold)
                /\ HistSuccess(cb, cb')
                /\ call' = [got EXCEPT !.successes = @ + 1]
        /\ UNCHANGED <<now, cbConfig, clientConfig, front>>

\* time.sleep returns; continue with the next attempt.
Wake ==
    /\ call.pc = "sleeping"
    /\ now >= call.wake_at
    /\ call' = [call EXCEPT !.pc = "loop", !.attempt = @ + 1, !.status = 0,
                             !.header = "absent", !.value = 0, !.seconds = 0,
                             !.wake_at = 0]
    /\ UNCHANGED <<now, cbConfig, cb, hist, clientConfig, front>>

\* The loop body never ran (retry_attempts <= 0): cb.record_failure(), then
\* resp.raise_for_status() on the unbound resp.
FallThrough ==
    /\ call.pc = "loop"
    /\ call.attempt > retry_attempts
    /\ cb' = record_failure(cb, now, failure_threshold)
    /\ HistFailure(cb, cb', now)
    /\ call' = [call EXCEPT !.pc = "done", !.failures = @ + 1,
                             !.error = "UnboundLocalError"]
    /\ UNCHANGED <<now, cbConfig, clientConfig, front>>

\* get_circuit_breaker_state(): the health check reads cb.state.
HealthCheck == State

\* The other logical calls running concurrently: each has called cb.allow_request()
\* and later records its one outcome.
OtherCall == AllowRequest \/ RecordSuccess \/ RecordFailure

Next ==
    \/ Tick
    \/ HealthCheck
    \/ OtherCall
    \/ Call
    \/ AttemptFails
    \/ \E status \in Statuses, kind \in Headers, jitter \in 0..1 :
          \E value \in (IF kind = "numeric" THEN NumericHeaders ELSE {0}) :
              AttemptRetried(status, kind, value, jitter)
    \/ \E status \in Statuses : AttemptTerminal(status)
    \/ Wake
    \/ FallThrough

Spec == Init /\ [][Next]_vars

----------------------------------------------------------------------------
(* src/function_app.py: the tool handlers *)

ToolNames == {"list_pipeline_runs", "get_run_failure_logs", "list_deployments",
              "trigger_pipeline_run"}

\* The exceptions of a logical client call that are subclasses of
\* requests.RequestException.
RequestExceptions == {"HTTPError", "ConnectionError"}

\* The client, the breaker and the limiter as configured from the settings.
InitHandler ==
    /\ now = 0
    /\ failure_threshold = 1
    /\ cooldown_seconds = MaxCooldown
    /\ success_threshold = 1
    /\ cb = NewCircuitBreaker
    /\ last = NoOp
    /\ streak = 0
    /\ trip = NoTrip
    /\ probes = 0
    /\ retry_attempts \in 0..MaxAttempts
    /\ retry_delay = MaxRetryDelay
    /\ call = IdleCall
    /\ max_requests = 1
    /\ window_seconds = MaxWindow
    /\ FrontIdle

\* Variant: the handler goes on when the limiter has denied the invocation.
InvokeUnlimited(name, user_key, resolved, valid) ==
    LET res == check(requests, user_key, now, max_requests, window_seconds)
        begun == [IdleTool EXCEPT !.name = name, !.user_key = user_key]
    IN  /\ tool.pc \in {"idle", "done"}
        /\ tool.user_key \in {"none", user_key}
        /\ call.pc \in {"idle", "done"}
        /\ IF ~resolved
           THEN /\ tool' = [begun EXCEPT !.pc = "done", !.result = "error"]
                /\ UNCHANGED <<requests, checked, log, alone>>
           ELSE /\ requests' = res.requests
                /\ HistCheck(user_key, now, res)
                /\ tool' = IF ~valid
                           THEN [begun EXCEPT !.pc = "done", !.checks = 1,
                                              !.result = "invalid"]
                           ELSE [begun EXCEPT !.pc = "ready", !.checks = 1]
        /\ call' = IdleCall
        /\ UNCHANGED <<now, cbConfig, cb, hist, clientConfig, limiterConfig, threads>>

\* A tool handler runs up to its first client call: the context is parsed and the
\* project resolved (ValueError: the error payload), then _check_rate_limit(user) (denied:
\* the rate-limit payload), then the arguments are validated (invalid: an error payload).
\* No client call of this invocation has begun.  The invocations under observation are
\* those of one user, one after another.
Invoke(name, user_key, resolved, valid) ==
    LET res == check(requests, user_key, now, max_requests, window_seconds)
        begun == [IdleTool EXCEPT !.name = name, !.user_key = user_key]
    IN  /\ tool.pc \in {"idle", "done"}
        /\ tool.user_key \in {"none", user_key}
        /\ call.pc \in {"idle", "done"}
        /\ IF ~resolved
           THEN /\ tool' = [begun EXCEPT !.pc = "done", !.result = "error"]
                /\ UNCHANGED <<requests, checked, log, alone>>
           ELSE /\ requests' = res.requests
                /\ HistCheck(user_key, now, res)
                /\ tool' = IF ~res.allowed
                           THEN [begun EXCEPT !.pc = "done", !.checks = 1,
                                              !.result = "rate_limited"]
                           ELSE IF ~valid
                           THEN [begun EXCEPT !.pc = "done", !.checks = 1,
                                              !.result = "invalid"]
                           ELSE [begun EXCEPT !.pc = "ready", !.checks = 1]
        /\ call' = IdleCall
        /\ UNCHANGED <<now, cbConfig, cb, hist, clientConfig, limiterConfig, threads>>

\* The handler calls client.get, client.post or client.get_text: the logical call begins
\* with cb.allow_request().
ToolCall ==
    /\ tool.pc = "ready"
    /\ call.pc \in {"idle", "done"}
    /\ cb' = maybe_transition_to_half_open(cb, now, cooldown_seconds)
    /\ HistAllow(cb, cb')
    /\ call' = IF allow_request_result(cb')
               THEN [IdleCall EXCEPT !.pc = "loop", !.attempt = 1, !.found = cb.state]
               ELSE [IdleCall EXCEPT !.pc = "done", !.error = "ADOUnavailableError",
                                     !.found = cb.state]
    /\ tool' = [tool EXCEPT !.pc = "calling", !.calls = @ + 1]
    /\ UNCHANGED <<now, cbConfig, clientConfig, limiter, threads>>

\* What the handler returns when a client call of it ends with an exception it does not
\* swallow.
error_result(error) ==
    IF error = "ADOUnavailableError" THEN "unavailable"
    ELSE IF error \in RequestExceptions \cup {"ValueError"} THEN "error"
    ELSE "raised"

\* The number of client calls the handler makes when none fails: get_run_failure_logs
\* gets the build, the timeline and then each log; the others make one call.
planned_calls(name, logs) == IF name = "get_run_failure_logs" THEN 2 + logs ELSE 1

\* The logical call returns to the handler; logs is the number of logs the timeline
\* names.  A log that cannot be fetched (requests.RequestException, ADOUnavailableError)
\* is skipped.
ToolReturn(logs) ==
    LET fetching == tool.name = "get_run_failure_logs" /\ tool.calls > 2
        skipped == fetching /\ call.error \in RequestExceptions \cup {"ADOUnavailableError"}
        known == IF tool.name = "get_run_failure_logs" /\ tool.calls = 2
                 THEN logs ELSE tool.logs
    IN  /\ tool.pc = "calling"
        /\ call.pc = "done"
        /\ tool' = IF call.error # "none" /\ ~skipped
                   THEN [tool EXCEPT !.pc = "done", !.result = error_result(call.error)]
                   ELSE IF tool.calls < planned_calls(tool.name, known)
                   THEN [tool EXCEPT !.pc = "ready", !.logs = known]
                   ELSE [tool EXCEPT !.pc = "done", !.logs = known, !.result = "ok"]
        /\ UNCHANGED <<now, cbConfig, cb, hist, clientConfig, call, limiter, threads>>

NextHandler ==
    \/ Tick
    \/ \E name \in ToolNames, user_key \in UserKeys, resolved \in BOOLEAN,
          valid \in BOOLEAN : Invoke(name, user_key, resolved, valid)
    \/ ToolCall
    \/ AttemptFails
    \/ \E status \in Statuses, kind \in Headers, jitter \in 0..1 :
          \E value \in (IF kind = "numeric" THEN NumericHeaders ELSE {0}) :
              AttemptRetried(status, kind, value, jitter)
    \/ \E status \in Statuses : AttemptTerminal(status)
    \/ Wake
    \/ FallThrough
    \/ \E logs \in 0..MaxLogs : ToolReturn(logs)

SpecHandler == InitHandler /\ [][NextHandler]_vars

----------------------------------------------------------------------------
(* The limiter checked by one caller after another *)

InitLimiter ==
    /\ now = 0
    /\ failure_threshold = MaxThreshold
    /\ cooldown_seconds = MaxCooldown
    /\ success_threshold = 1
    /\ cb = NewCircuitBreaker
    /\ last = NoOp
    /\ streak = 0
    /\ trip = NoTrip
    /\ probes = 0
    /\ retry_attempts = MaxAttempts
    /\ retry_delay = MaxRetryDelay
    /\ call = IdleCall
    /\ max_requests \in 0..MaxRequests
    /\ window_seconds \in 1..MaxWindow
    /\ FrontIdle

\* RateLimiter.check(user_key) by a caller that no other caller overlaps: the clock is
\* read and the locked section run with no other check in between.
Check(user_key) ==
    LET res == check(requests, user_key, now, max_requests, window_seconds)
    IN  /\ requests' = res.requests
        /\ HistCheck(user_key, now, res)
        /\ UNCHANGED <<now, cbConfig, cb, hist, clientConfig, call, limiterConfig, tool,
                       threads>>

NextLimiter == Tick \/ \E user_key \in UserKeys : Check(user_key)

SpecLimiter == InitLimiter /\ [][NextLimiter]_vars

----------------------------------------------------------------------------
(* The limiter checked by concurrent callers *)

\* The concurrent callers are invocations of one user.
BusyKeys == {"oid-1"}

\* The history after a check of user_key with the clock reading t returned allowed.
GrantedAfter(user_key, t, allowed) ==
    IF allowed THEN [granted EXCEPT ![user_key][t] = @ + 1] ELSE granted

\* RateLimiter.check, lines 16-17: the caller reads the clock and computes the cutoff; it
\* does not hold the lock yet.
ReadClock(c, user_key) ==
    /\ thread[c].pc \in {"idle", "allowed", "denied"}
    /\ thread' = [thread EXCEPT ![c] = [IdleThread EXCEPT !.pc = "read",
                                                          !.user_key = user_key,
                                                          !.t = now]]
    /\ UNCHANGED <<now, cbConfig, cb, hist, clientConfig, call, limiter, tool, locks,
                   granted, lazy, paths>>

\* RateLimiter.check, line 18: with self._lock, entered when no other caller holds it.
AcquireLimiter(c) ==
    /\ thread[c].pc = "read"
    /\ locks.limiter = "free"
    /\ locks' = [locks EXCEPT !.limiter = c]
    /\ thread' = [thread EXCEPT ![c].pc = "locked"]
    /\ UNCHANGED <<now, cbConfig, cb, hist, clientConfig, call, limiter, tool, granted,
                   lazy, paths>>

\* RateLimiter.check, lines 19-26: the locked section, run with the clock reading taken
\* before the lock; the lock is released on return, and the caller is left with the
\* value returned.
CheckLocked(c) ==
    LET user_key == thread[c].user_key
        res == check(requests, user_key, thread[c].t, max_requests, window_seconds)
    IN  /\ thread[c].pc = "locked"
        /\ locks.limiter = c
        /\ requests' = res.requests
        /\ granted' = GrantedAfter(user_key, thread[c].t, res.allowed)
        /\ locks' = [locks EXCEPT !.limiter = "free"]
        /\ thread' = [thread EXCEPT ![c] = [IdleThread EXCEPT !.pc = IF res.allowed
                                                                     THEN "allowed"
                                                                     ELSE "denied"]]
        /\ UNCHANGED <<now, cbConfig, cb, hist, clientConfig, call, limiterConfig,
                       checked, log, alone, tool, lazy, paths>>

NextLimiterConcurrent ==
    \/ Tick
    \/ \E c \in Callers, user_key \in BusyKeys : ReadClock(c, user_key)
    \/ \E c \in Callers : AcquireLimiter(c)
    \/ \E c \in Callers : CheckLocked(c)

SpecLimiterConcurrent == InitLimiter /\ [][NextLimiterConcurrent]_vars

----------------------------------------------------------------------------
(* The lazy singletons: _get_circuit_breaker and _get_rate_limiter *)

\* if _circuit_breaker is None: the caller reads the global.
TestNone(c, g) ==
    /\ lazy[g].caller[c].pc = "out"
    /\ lazy' = [lazy EXCEPT ![g].caller[c].pc =
                   IF lazy[g].global = 0 THEN "construct" ELSE "return"]
    /\ UNCHANGED <<now, cbConfig, cb, hist, clientConfig, call, limiter, tool, thread,
                   locks, granted, paths>>

\* _circuit_breaker = CircuitBreaker(...): a new object is constructed from the settings
\* and stored in the global.
Construct(c, g) ==
    /\ lazy[g].caller[c].pc = "construct"
    /\ lazy' = [lazy EXCEPT ![g].built = @ + 1, ![g].global = lazy[g].built + 1,
                            ![g].caller[c].pc = "return"]
    /\ UNCHANGED <<now, cbConfig, cb, hist, clientConfig, call, limiter, tool, thread,
                   locks, granted, paths>>

\* return _circuit_breaker: the caller reads the global again and leaves with its value.
ReturnGlobal(c, g) ==
    /\ lazy[g].caller[c].pc = "return"
    /\ lazy' = [lazy EXCEPT ![g].caller[c] = [pc |-> "out", got |-> lazy[g].global]]
    /\ UNCHANGED <<now, cbConfig, cb, hist, clientConfig, call, limiter, tool, thread,
                   locks, granted, paths>>

\* The caller calls a method on the object its getter returned: cb.allow_request(),
\* cb.record_success(), cb.record_failure(), _get_rate_limiter().check(user_key).
UseInstance(c, g) ==
    /\ lazy[g].caller[c].pc = "out"
    /\ lazy[g].caller[c].got # 0
    /\ lazy' = [lazy EXCEPT ![g].used = @ \cup {lazy[g].caller[c].got}]
    /\ UNCHANGED <<now, cbConfig, cb, hist, clientConfig, call, limiter, tool, thread,
                   locks, granted, paths>>

NextSingletons ==
    \E c \in Callers, g \in Singletons :
        TestNone(c, g) \/ Construct(c, g) \/ ReturnGlobal(c, g) \/ UseInstance(c, g)

SpecSingletons == Init /\ [][NextSingletons]_vars

----------------------------------------------------------------------------
(* src/src/azure_client.py: _request_with_retry and get_text side by side *)

\* One step of a call as it is kept in steps: the breaker method called (allow_request
\* with 1 for True and 0 for False), the request with the number of its attempt, or the
\* sleep with its length.  A response is its status (0: the request raised, there is no
\* response), the kind and value of its Retry-After header, and the jitter drawn if the
\* backoff is computed.
Step(name, value) == <<name, value>>

\* _request_with_retry, lines 64-66: cb.allow_request() on the breaker b at time t.
json_begin(b, t) ==
    LET b1 == maybe_transition_to_half_open(b, t, cooldown_seconds)
    IN  IF allow_request_result(b1)
        THEN [IdleRun EXCEPT !.pc = "loop", !.attempt = 1, !.cb = b1, !.t = t,
                             !.steps = <<Step("allow_request", 1)>>]
        ELSE [IdleRun EXCEPT !.pc = "done", !.cb = b1, !.t = t,
                             !.steps = <<Step("allow_request", 0)>>,
                             !.outcome = "ADOUnavailableError"]

\* _request_with_retry, lines 79-109: one pass of the loop body, given the response.
json_attempt(run, status, kind, value, jitter) ==
    LET asked == [run EXCEPT !.steps = Append(@, Step("request", run.attempt)),
                             !.resp = IF status = 0 THEN @ ELSE status]
        seconds == retry_after_delay(kind, value, retry_delay, run.attempt, jitter)
    IN  IF status = 0
        THEN [asked EXCEPT !.pc = "done", !.outcome = "ConnectionError"]
        ELSE IF should_retry(status, run.attempt, retry_attempts)
        THEN IF float_raises(kind) \/ sleep_raises(seconds)
             THEN [asked EXCEPT !.pc = "done", !.outcome = "ValueError"]
             ELSE [asked EXCEPT !.steps = Append(@, Step("sleep", seconds)),
                                !.t = @ + seconds, !.attempt = @ + 1]
        ELSE [asked EXCEPT
                 !.pc = "done",
                 !.cb = IF is_failure_status(status)
                        THEN record_failure(@, run.t, failure_threshold)
                        ELSE record_success(@, success_threshold),
                 !.steps = Append(@, Step(IF is_failure_status(status)
                                          THEN "record_failure" ELSE "record_success", 0)),
                 !.outcome = IF raise_for_status(status) THEN "HTTPError" ELSE "returned"]

\* _request_with_retry, lines 111-113: the code after the loop.
json_after_loop(run) ==
    [run EXCEPT !.pc = "done",
                !.cb = record_failure(@, run.t, failure_threshold),
                !.steps = Append(@, Step("record_failure", 0)),
                !.outcome = IF run.resp = -1 THEN "UnboundLocalError"
                            ELSE IF raise_for_status(run.resp) THEN "HTTPError"
                            ELSE "returned"]

\* get_text, lines 159-161: cb.allow_request() on the breaker b at time t.
text_begin(b, t) ==
    LET b1 == maybe_transition_to_half_open(b, t, cooldown_seconds)
    IN  IF ~allow_request_result(b1)
        THEN [IdleRun EXCEPT !.pc = "done", !.cb = b1, !.t = t,
                             !.steps = <<Step("allow_request", 0)>>,
                             !.outcome = "ADOUnavailableError"]
        ELSE [IdleRun EXCEPT !.pc = "loop", !.attempt = 1, !.cb = b1, !.t = t,
                             !.steps = <<Step("allow_request", 1)>>]

\* Variant: get_text gives up without sleeping when the server names no delay.
text_attempt_no_backoff(run, status, kind, value, jitter) ==
    LET asked == [run EXCEPT !.steps = Append(@, Step("request", run.attempt)),
                             !.resp = IF status = 0 THEN @ ELSE status]
        retry_after == IF kind = "absent" THEN 0 ELSE value
    IN  IF status = 0
        THEN [asked EXCEPT !.pc = "done", !.outcome = "ConnectionError"]
        ELSE IF status \in {429, 502, 503, 504} /\ run.attempt < retry_attempts
                /\ (kind = "date" \/ retry_after # 0)
        THEN IF kind = "date"
             THEN [asked EXCEPT !.pc = "done", !.outcome = "ValueError"]
             ELSE IF retry_after < 0
             THEN [asked EXCEPT !.pc = "done", !.outcome = "ValueError"]
             ELSE [asked EXCEPT !.steps = Append(@, Step("sleep", retry_after)),
                                !.t = @ + retry_after, !.attempt = @ + 1]
        ELSE IF status >= 500
        THEN [asked EXCEPT !.pc = "done",
                           !.cb = record_failure(@, run.t, failure_threshold),
                           !.steps = Append(@, Step("record_failure", 0)),
                           !.outcome = "HTTPError"]
        ELSE [asked EXCEPT !.pc = "done",
                           !.cb = record_success(@, success_threshold),
                           !.steps = Append(@, Step("record_success", 0)),
                           !.outcome = IF status >= 400 THEN "HTTPError" ELSE "returned"]

\* get_text, lines 173-196: one pass of the loop body, given the response.
text_attempt(run, status, kind, value, jitter) ==
    LET asked == [run EXCEPT !.steps = Append(@, Step("request", run.attempt)),
                             !.resp = IF status = 0 THEN @ ELSE status]
        retry_after == IF kind = "absent" THEN 0 ELSE value
        delay == IF retry_after # 0
                 THEN retry_after
                 ELSE retry_delay * (2 ^ (run.attempt - 1)) + jitter
    IN  IF status = 0
        THEN [asked EXCEPT !.pc = "done", !.outcome = "ConnectionError"]
        ELSE IF status \in {429, 502, 503, 504} /\ run.attempt < retry_attempts
        THEN IF kind = "date"
             THEN [asked EXCEPT !.pc = "done", !.outcome = "ValueError"]
             ELSE IF delay < 0
             THEN [asked EXCEPT !.pc = "done", !.outcome = "ValueError"]
             ELSE [asked EXCEPT !.steps = Append(@, Step("sleep", delay)),
                                !.t = @ + delay, !.attempt = @ + 1]
        ELSE IF status >= 500
        THEN [asked EXCEPT !.pc = "done",
                           !.cb = record_failure(@, run.t, failure_threshold),
                           !.steps = Append(@, Step("record_failure", 0)),
                           !.outcome = "HTTPError"]
        ELSE [asked EXCEPT !.pc = "done",
                           !.cb = record_success(@, success_threshold),
                           !.steps = Append(@, Step("record_success", 0)),
                           !.outcome = IF status >= 400 THEN "HTTPError" ELSE "returned"]

\* get_text, lines 198-200: the code after the loop.
text_after_loop(run) ==
    LET b2 == record_failure(run.cb, run.t, failure_threshold)
        recorded == [run EXCEPT !.pc = "done", !.cb = b2,
                                !.steps = Append(@, Step("record_failure", 0))]
    IN  IF run.resp = -1
        THEN [recorded EXCEPT !.outcome = "UnboundLocalError"]
        ELSE IF run.resp >= 400
        THEN [recorded EXCEPT !.outcome = "HTTPError"]
        ELSE [recorded EXCEPT !.outcome = "returned"]

\* Before the two calls begin the clock advances and earlier calls record their
\* outcomes, which take the breaker to the state the two calls find.
PathsLater ==
    /\ paths = IdlePaths
    /\ Tick

PathsEarlier(failed) ==
    /\ paths = IdlePaths
    /\ cb' = IF failed
             THEN record_failure(cb, now, failure_threshold)
             ELSE record_success(cb, success_threshold)
    /\ UNCHANGED <<now, cbConfig, hist, clientConfig, call, front>>

\* Both calls begin on the breaker as it is now.
PathsBegin ==
    /\ paths = IdlePaths
    /\ paths' = [json |-> json_begin(cb, now), text |-> text_begin(cb, now)]
    /\ UNCHANGED <<now, cbConfig, cb, hist, clientConfig, call, limiter, tool, thread,
                   locks, granted, lazy>>

\* Both calls get the same response to their next request.
PathsRespond(status, kind, value, jitter) ==
    LET InLoop(run) == run.pc = "loop" /\ run.attempt <= retry_attempts
    IN  /\ InLoop(paths.json) \/ InLoop(paths.text)
        /\ paths' = [json |-> IF InLoop(paths.json)
                              THEN json_attempt(paths.json, status, kind, value, jitter)
                              ELSE paths.json,
                     text |-> IF InLoop(paths.text)
                              THEN text_attempt(paths.text, status, kind, value, jitter)
                              ELSE paths.text]
        /\ UNCHANGED <<now, cbConfig, cb, hist, clientConfig, call, limiter, tool,
                       thread, locks, granted, lazy>>

\* The loops are exhausted: both calls run the code after the loop.
PathsAfterLoop ==
    LET Exhausted(run) == run.pc = "loop" /\ run.attempt > retry_attempts
    IN  /\ Exhausted(paths.json) \/ Exhausted(paths.text)
        /\ paths' = [json |-> IF Exhausted(paths.json)
                              THEN json_after_loop(paths.json) ELSE paths.json,
                     text |-> IF Exhausted(paths.text)
                              THEN text_after_loop(paths.text) ELSE paths.text]
        /\ UNCHANGED <<now, cbConfig, cb, hist, clientConfig, call, limiter, tool,
                       thread, locks, granted, lazy>>

NextPaths ==
    \/ PathsLater
    \/ \E failed \in BOOLEAN : PathsEarlier(failed)
    \/ PathsBegin
    \/ \E status \in Statuses \cup {0}, kind \in Headers, jitter \in 0..1 :
          \E value \in (IF kind = "numeric" THEN NumericHeaders ELSE {0}) :
              PathsRespond(status, kind, value, jitter)
    \/ PathsAfterLoop

SpecPaths == Init /\ [][NextPaths]_vars

----------------------------------------------------------------------------
(* Concurrent tool invocations: the limiter check, then the client call, with the locks *)

\* The method a caller is about to call on the breaker, by where it is: the admission
\* check after an allowed limiter check, the outcome after a terminal response, and the
\* state property read by the health check.
BreakerMethod(pc) ==
    CASE pc = "allowed" -> "in_allow_request"
      [] pc = "got_success" -> "in_record_success"
      [] pc = "got_failure" -> "in_record_failure"
      [] pc = "idle" -> "in_state"

\* with self._lock, at the top of a CircuitBreaker method: entered when no other caller
\* holds the lock.
AcquireBreaker(c) ==
    /\ thread[c].pc \in {"allowed", "got_success", "got_failure", "idle"}
    /\ locks.breaker = "free"
    /\ locks' = [locks EXCEPT !.breaker = c]
    /\ thread' = [thread EXCEPT ![c].pc = BreakerMethod(thread[c].pc)]
    /\ UNCHANGED <<now, cbConfig, cb, hist, clientConfig, call, limiter, tool, granted,
                   lazy, paths>>

\* Variant: allow_request returns to an admitted caller without releasing the lock.
AllowLockedKept(c) ==
    /\ thread[c].pc = "in_allow_request"
    /\ locks.breaker = c
    /\ cb' = maybe_transition_to_half_open(cb, now, cooldown_seconds)
    /\ HistAllow(cb, cb')
    /\ locks' = IF allow_request_result(cb') THEN locks ELSE [locks EXCEPT !.breaker = "free"]
    /\ thread' = [thread EXCEPT ![c] = IF allow_request_result(cb')
                                       THEN [IdleThread EXCEPT !.pc = "requesting",
                                                               !.attempt = 1]
                                       ELSE IdleThread]
    /\ UNCHANGED <<now, cbConfig, clientConfig, call, limiter, tool, granted, lazy, paths>>

\* The body of allow_request under the lock, released on return: the caller goes on to
\* its first request, or leaves with ADOUnavailableError.
AllowLocked(c) ==
    /\ thread[c].pc = "in_allow_request"
    /\ locks.breaker = c
    /\ cb' = maybe_transition_to_half_open(cb, now, cooldown_seconds)
    /\ HistAllow(cb, cb')
    /\ locks' = [locks EXCEPT !.breaker = "free"]
    /\ thread' = [thread EXCEPT ![c] = IF allow_request_result(cb')
                                       THEN [IdleThread EXCEPT !.pc = "requesting",
                                                               !.attempt = 1]
                                       ELSE IdleThread]
    /\ UNCHANGED <<now, cbConfig, clientConfig, call, limiter, tool, granted, lazy, paths>>

\* The body of the state property under the lock, released on return.
StateLocked(c) ==
    /\ thread[c].pc = "in_state"
    /\ locks.breaker = c
    /\ cb' = state_after(cb, now, cooldown_seconds)
    /\ HistState(cb, cb')
    /\ locks' = [locks EXCEPT !.breaker = "free"]
    /\ thread' = [thread EXCEPT ![c] = IdleThread]
    /\ UNCHANGED <<now, cbConfig, clientConfig, call, limiter, tool, granted, lazy, paths>>

\* The body of record_success under the lock, released on return; the client call ends.
SuccessLocked(c) ==
    /\ thread[c].pc = "in_record_success"
    /\ locks.breaker = c
    /\ cb' = record_success(cb, success_threshold)
    /\ HistSuccess(cb, cb')
    /\ locks' = [locks EXCEPT !.breaker = "free"]
    /\ thread' = [thread EXCEPT ![c] = IdleThread]
    /\ UNCHANGED <<now, cbConfig, clientConfig, call, limiter, tool, granted, lazy, paths>>

\* The body of record_failure under the lock, released on return; the client call ends.
FailureLocked(c) ==
    /\ thread[c].pc = "in_record_failure"
    /\ locks.breaker = c
    /\ cb' = record_failure(cb, now, failure_threshold)
    /\ HistFailure(cb, cb', now)
    /\ locks' = [locks EXCEPT !.breaker = "free"]
    /\ thread' = [thread EXCEPT ![c] = IdleThread]
    /\ UNCHANGED <<now, cbConfig, clientConfig, call, limiter, tool, granted, lazy, paths>>

\* The physical request of the caller returns (status 0: it raises): the call ends on the
\* exception, or goes to sleep before the next attempt, or is about to record its
\* outcome.
Respond(c, status, kind, value) ==
    LET seconds == retry_after_delay(kind, value, retry_delay, thread[c].attempt, 0)
    IN  /\ thread[c].pc = "requesting"
        /\ thread[c].attempt <= retry_attempts
        /\ thread' = [thread EXCEPT ![c] =
               IF status = 0
               THEN IdleThread
               ELSE IF should_retry(status, thread[c].attempt, retry_attempts)
               THEN IF float_raises(kind) \/ sleep_raises(seconds)
                    THEN IdleThread
                    ELSE [@ EXCEPT !.pc = "sleeping"]
               ELSE IF is_failure_status(status)
               THEN [@ EXCEPT !.pc = "got_failure"]
               ELSE [@ EXCEPT !.pc = "got_success"]]
        /\ UNCHANGED <<now, cbConfig, cb, hist, clientConfig, call, limiter, tool, locks,
                       granted, lazy, paths>>

\* The loop body never ran (retry_attempts <= 0): the caller is about to call
\* cb.record_failure().
LoopSkipped(c) ==
    /\ thread[c].pc = "requesting"
    /\ thread[c].attempt > retry_attempts
    /\ thread' = [thread EXCEPT ![c].pc = "got_failure"]
    /\ UNCHANGED <<now, cbConfig, cb, hist, clientConfig, call, limiter, tool, locks,
                   granted, lazy, paths>>

\* time.sleep returns: the next attempt.
WakeUp(c) ==
    /\ thread[c].pc = "sleeping"
    /\ thread' = [thread EXCEPT ![c].pc = "requesting", ![c].attempt = @ + 1]
    /\ UNCHANGED <<now, cbConfig, cb, hist, clientConfig, call, limiter, tool, locks,
                   granted, lazy, paths>>

NextLocks ==
    \/ Tick
    \/ \E c \in Callers, user_key \in BusyKeys : ReadClock(c, user_key)
    \/ \E c \in Callers : AcquireLimiter(c)
    \/ \E c \in Callers : CheckLocked(c)
    \/ \E c \in Callers : AcquireBreaker(c)
    \/ \E c \in Callers : AllowLocked(c)
    \/ \E c \in Callers : StateLocked(c)
    \/ \E c \in Callers : SuccessLocked(c)
    \/ \E c \in Callers : FailureLocked(c)
    \/ \E c \in Callers, status \in Statuses \cup {0}, kind \in Headers :
          \E value \in (IF kind = "numeric" THEN NumericHeaders ELSE {0}) :
              Respond(c, status, kind, value)
    \/ \E c \in Callers : LoopSkipped(c)
    \/ \E c \in Callers : WakeUp(c)

SpecLocks == InitHandler /\ [][NextLocks]_vars

----------------------------------------------------------------------------
(* Which breaker method a step called *)

AllowStep == last'.seq # last.seq /\ last'.op = "allow_request"
StateStep == last'.seq # last.seq /\ last'.op = "state"
SuccessStep == last'.seq # last.seq /\ last'.op = "record_success"
FailureStep == last'.seq # last.seq /\ last'.op = "record_failure"

\* What cb.allow_request() returns when called in the current state.
AllowNow ==
    allow_request_result(maybe_transition_to_half_open(cb, now, cooldown_seconds))

CooldownElapsed == now - cb.opened_at >= cooldown_seconds

----------------------------------------------------------------------------
(* C1..C4: the breaker's transitions *)

\* C1 (state part): with failure_threshold = F >= 1, while fewer than F failures have been
\* recorded in a run that began at a Closed breaker with failure_count = 0 the breaker is
\* Closed and AllowRequest() returns true; and while less than cooldown_seconds have
\* passed since the F-th failure of such a run the breaker is Open and AllowRequest()
\* returns false.
C1_Inv ==
    failure_threshold >= 1 =>
        /\ (streak >= 0 /\ streak < failure_threshold) => (cb.state = CLOSED /\ AllowNow)
        /\ (trip.from = CLOSED /\ now - trip.at < cooldown_seconds)
              => (cb.state = OPEN /\ ~AllowNow)

\* C1 (step part): the F-th RecordFailure() of such a run leaves the breaker Open with
\* opened_at the time of that call, and an AllowRequest() called on an Open breaker before
\* the cooldown has elapsed returns false.
C1_Step ==
    /\ (failure_threshold >= 1 /\ FailureStep /\ streak' = failure_threshold)
          => (cb'.state = OPEN /\ cb'.opened_at = now /\ trip' = [at |-> now, from |-> CLOSED])
    /\ (failure_threshold >= 1 /\ FailureStep /\ streak' >= 0 /\ streak' < failure_threshold)
          => cb'.state = CLOSED
    /\ (AllowStep /\ cb.state = OPEN /\ ~CooldownElapsed) => ~last'.allowed

\* C1: after F RecordFailure() calls with no RecordSuccess() between them, from Closed
\* with failure_count = 0, the breaker is Open and every AllowRequest() before
\* cooldown_seconds have passed since the F-th failure returns false; after fewer than F
\* it is still Closed and AllowRequest() returns true.
C1_OpensAtThreshold == []C1_Inv /\ [][C1_Step]_vars

C1_Witness ==
    /\ failure_threshold = 2 /\ streak = 2 /\ cooldown_seconds = 2
    /\ trip.from = CLOSED /\ now = trip.at + 1
    /\ cb.state = OPEN /\ last.op = "allow_request" /\ ~last.allowed

\* C2: an AllowRequest() or State() call on an Open breaker moves it to HalfOpen with
\* success_count = 0 (AllowRequest() returning true) when now - opened_at >=
\* cooldown_seconds, and leaves it Open and unchanged (AllowRequest() returning false)
\* before that; and a step that takes the breaker out of Open is such a call.
C2_Step ==
    /\ (cb.state = OPEN /\ (AllowStep \/ StateStep) /\ CooldownElapsed)
          => /\ cb'.state = HALF_OPEN /\ cb'.success_count = 0
             /\ last'.observed = HALF_OPEN
             /\ AllowStep => last'.allowed
    /\ (cb.state = OPEN /\ (AllowStep \/ StateStep) /\ ~CooldownElapsed)
          => /\ cb' = cb
             /\ last'.observed = OPEN
             /\ AllowStep => ~last'.allowed
    /\ (cb.state = OPEN /\ cb'.state # OPEN)
          => ((AllowStep \/ StateStep) /\ CooldownElapsed /\ cb'.state = HALF_OPEN)

C2_LazyHalfOpen == [][C2_Step]_vars

C2_Witness ==
    /\ cb.state = HALF_OPEN /\ cooldown_seconds = 2 /\ now - cb.opened_at = cooldown_seconds
    /\ last.op = "allow_request" /\ last.allowed

\* C3 (step part): a RecordFailure() on a HalfOpen breaker leaves it Open with
\* success_count = 0 and opened_at = now, whatever the thresholds and counters.
C3_Step ==
    (cb.state = HALF_OPEN /\ FailureStep)
        => /\ cb'.state = OPEN /\ cb'.success_count = 0 /\ cb'.opened_at = now
           /\ trip' = [at |-> now, from |-> HALF_OPEN]

\* C3 (state part): while less than cooldown_seconds have passed since the last failure
\* recorded on a HalfOpen breaker, the breaker is Open and AllowRequest() returns false.
C3_Inv ==
    (trip.from = HALF_OPEN /\ now - trip.at < cooldown_seconds)
        => (cb.state = OPEN /\ ~AllowNow)

\* C3: one RecordFailure() while HalfOpen reopens the breaker with a fresh cooldown.
C3_HalfOpenFailureReopens == []C3_Inv /\ [][C3_Step]_vars

C3_Witness ==
    /\ trip.from = HALF_OPEN /\ cb.state = OPEN /\ now = trip.at + 1
    /\ cooldown_seconds = 2 /\ failure_threshold = 2 /\ success_threshold = 2
    /\ last.op = "allow_request" /\ ~last.allowed

\* C4 (step part): a RecordSuccess() on a HalfOpen breaker that is the success_threshold-th
\* since it became HalfOpen leaves it Closed with both counters 0; an earlier one leaves
\* it HalfOpen with success_count one higher.
C4_Step ==
    (cb.state = HALF_OPEN /\ SuccessStep)
        => IF probes + 1 >= success_threshold
           THEN cb'.state = CLOSED /\ cb'.failure_count = 0 /\ cb'.success_count = 0
           ELSE cb'.state = HALF_OPEN /\ cb'.success_count = cb.success_count + 1

\* C4 (state part): while HalfOpen, success_count is the number of RecordSuccess() calls
\* made since the breaker became HalfOpen.
C4_Inv == cb.state = HALF_OPEN => cb.success_count = probes

\* C4: successes while HalfOpen are counted, and the one reaching success_threshold
\* closes the breaker and resets both counters.
C4_HalfOpenSuccessCloses == []C4_Inv /\ [][C4_Step]_vars

C4_Witness ==
    /\ cb.state = CLOSED /\ last.op = "record_success" /\ success_threshold = 2
    /\ failure_threshold = 2 /\ cb.failure_count = 0 /\ trip.from # "none"

----------------------------------------------------------------------------
(* C5..C10: one logical call of the client *)

Outcomes == call.successes + call.failures

\* The call has ended on a response (not on a denial, a lost connection or the empty loop).
EndedOnResponse ==
    call.pc = "done" /\ call.error \in {"none", "HTTPError", "ValueError"}

\* C5: a call whose responses are k < retry_attempts retryable statuses followed by a
\* status s outside the retryable set issues k+1 requests, sleeps k times and records
\* exactly one outcome, RecordFailure if s >= 500 and RecordSuccess otherwise; no
\* outcome is recorded before the call has ended.
C5_RetriedThenTerminal ==
    /\ (call.pc \in {"loop", "sleeping"} /\ call.attempt <= retry_attempts) => Outcomes = 0
    /\ (EndedOnResponse /\ call.header # "date"
          /\ (call.requests < retry_attempts \/ call.status \notin RETRYABLE_STATUS_CODES))
          => /\ call.status \notin RETRYABLE_STATUS_CODES
             /\ call.requests = call.retried + 1
             /\ call.sleeps = call.retried
             /\ Outcomes = 1
             /\ call.failures = (IF call.status >= 500 THEN 1 ELSE 0)

C7_Inv ==
    call.error = "ADOUnavailableError"
        => (call.pc = "done" /\ call.requests = 0 /\ call.sleeps = 0 /\ Outcomes = 0)

\* C7 (step part): when AllowRequest() returns false the breaker is left as it was, and
\* a logical call that begins while AllowRequest() returns false fails with
\* ADOUnavailableError.
C7_Step ==
    /\ (AllowStep /\ ~last'.allowed) => cb' = cb
    /\ (call.pc \in {"idle", "done"} /\ call' # call /\ ~AllowNow)
          => (call'.error = "ADOUnavailableError" /\ cb' = cb)
    /\ (call' # call /\ call'.error = "ADOUnavailableError")
          => (AllowStep /\ ~last'.allowed)

\* C7: a denied logical call fails with ADOUnavailableError without a request, a sleep or
\* a recorded outcome, and leaves the breaker unchanged.
C7_DeniedCall == []C7_Inv /\ [][C7_Step]_vars

C7_Witness ==
    /\ call.error = "ADOUnavailableError" /\ cb.state = OPEN
    /\ last.op = "allow_request" /\ ~last.allowed /\ cb.failure_count = 2

\* C8: a call that failed with HttpError carrying a retryable status issued exactly
\* retry_attempts requests and slept retry_attempts - 1 times, and recorded RecordSuccess
\* for 429 and RecordFailure for 502, 503 and 504.
C8_RetryableSurfacedWhenExhausted ==
    (call.pc = "done" /\ call.error = "HTTPError"
       /\ call.status \in RETRYABLE_STATUS_CODES)
        => /\ call.requests = retry_attempts
           /\ call.sleeps = retry_attempts - 1
           /\ Outcomes = 1
           /\ call.status = 429 => call.successes = 1
           /\ call.status \in {502, 503, 504} => call.failures = 1

C8_Witness ==
    /\ call.pc = "done" /\ call.error = "HTTPError" /\ call.status = 429
    /\ retry_attempts = 3 /\ call.requests = 3 /\ call.sleeps = 2 /\ call.successes = 1

\* C9: with retry_attempts = N a call issues at most N requests and sleeps at most N - 1
\* times, and every sleep lies between two of its requests.
C9_AttemptBounds ==
    call.pc # "idle" =>
        /\ call.requests <= retry_attempts
        /\ call.sleeps <= retry_attempts - 1
        /\ call.requests - call.sleeps \in {0, 1}
        /\ call.pc = "done" => (call.sleeps < call.requests \/ call.sleeps = 0)

\* C9 (amended): with retry_attempts = N >= 1 a call issues at most N requests and sleeps
\* at most N - 1 times; with N <= 0 it issues no request and does not sleep; every sleep
\* lies between two requests of the call.
C9_AttemptBoundsAmended ==
    call.pc # "idle" =>
        /\ retry_attempts >= 1
              => (call.requests <= retry_attempts /\ call.sleeps <= retry_attempts - 1)
        /\ retry_attempts <= 0 => (call.requests = 0 /\ call.sleeps = 0)
        /\ call.requests - call.sleeps \in {0, 1}
        /\ call.pc \in {"loop", "sleeping"} => call.sleeps = call.requests
        /\ call.pc = "done" => (call.sleeps < call.requests \/ call.sleeps = 0)

C9_Witness ==
    /\ call.pc = "done" /\ retry_attempts = 3 /\ call.requests = 3 /\ call.sleeps = 2

\* C10: on a retryable response with attempts remaining the call sleeps for the
\* Retry-After value when that is present and positive, and for
\* retry_delay * 2^(attempt-1) + jitter, 0 <= jitter <= 1, when the header is absent,
\* zero or negative; the delay is never negative.
C10_RetryDelay ==
    (call.pc \in {"sleeping", "done"} /\ call.status \in RETRYABLE_STATUS_CODES
       /\ call.attempt < retry_attempts /\ call.header # "date")
        => /\ call.pc = "sleeping"
           /\ call.seconds >= 0
           /\ IF call.header = "numeric" /\ call.value > 0
              THEN call.seconds = call.value
              ELSE call.seconds - retry_delay * (2 ^ (call.attempt - 1)) \in 0..1

----------------------------------------------------------------------------
(* C16..C19: the breaker's state machine, frames and counters *)

\* C16 (step part): a step that changes the stored state is one of the four transitions:
\* Closed to Open by a RecordFailure() bringing failure_count to failure_threshold or
\* more, Open to HalfOpen by the lazy check of AllowRequest()/State() once the cooldown
\* has elapsed, HalfOpen to Closed by the RecordSuccess() that is the
\* success_threshold-th since the breaker became HalfOpen, HalfOpen to Open by a
\* RecordFailure(); so Closed to HalfOpen and Open to Closed never happen in one step.
C16_Step ==
    cb'.state # cb.state =>
        \/ /\ cb.state = CLOSED /\ cb'.state = OPEN /\ FailureStep
           /\ cb'.failure_count = cb.failure_count + 1
           /\ cb'.failure_count >= failure_threshold
        \/ /\ cb.state = OPEN /\ cb'.state = HALF_OPEN /\ (AllowStep \/ StateStep)
           /\ CooldownElapsed
        \/ /\ cb.state = HALF_OPEN /\ cb'.state = CLOSED /\ SuccessStep
           /\ probes + 1 >= success_threshold
        \/ /\ cb.state = HALF_OPEN /\ cb'.state = OPEN /\ FailureStep

\* C16: the breaker starts Closed and its state changes only by the four transitions.
C16_FourTransitions == cb.state = CLOSED /\ [][C16_Step]_vars

\* Closed again after a failed probe: all four transitions have been taken.
C16_Witness ==
    /\ cb.state = CLOSED /\ last.op = "record_success" /\ trip.from = HALF_OPEN
    /\ failure_threshold = 2 /\ success_threshold = 2 /\ cooldown_seconds = 1

\* C17: a RecordSuccess() or RecordFailure() called while the stored state is Open leaves
\* state, failure_count, success_count and opened_at as they were, whether or not the
\* cooldown has elapsed.
C17_Step == (cb.state = OPEN /\ (SuccessStep \/ FailureStep)) => cb' = cb

C17_OutcomeWhileOpenIgnored == [][C17_Step]_vars

\* A failure reported on a breaker that a run of failures had opened, after the cooldown
\* has elapsed and before anyone has observed that.
C17_Witness ==
    /\ cb.state = OPEN /\ last.op = "record_failure" /\ streak = -1 /\ trip.from = CLOSED
    /\ failure_threshold = 2 /\ cooldown_seconds = 2 /\ CooldownElapsed
    /\ cb.opened_at = trip.at

\* C18: in every reachable state failure_count = 0 unless the state is Closed, and
\* success_count = 0 unless the state is HalfOpen.
C18_CountersReset ==
    /\ cb.state # CLOSED => cb.failure_count = 0
    /\ cb.state # HALF_OPEN => cb.success_count = 0

\* The value failure_count has when a failure opens the breaker.
OpeningCount == IF failure_threshold >= 1 THEN failure_threshold ELSE 1

\* C18 (amended, state part): success_count = 0 unless the state is HalfOpen;
\* failure_count is not reset when the breaker leaves Closed: while Open or HalfOpen it
\* keeps the value that opened the breaker, and while Closed it is below that value.
C18_Inv ==
    /\ cb.state # HALF_OPEN => cb.success_count = 0
    /\ cb.state # CLOSED => cb.failure_count = OpeningCount
    /\ cb.state = CLOSED => cb.failure_count < OpeningCount

\* C18 (amended, step part): failure_count is reset to 0 by the step that returns the
\* breaker to Closed, and success_count by every step that leaves or enters HalfOpen.
C18_Step ==
    /\ (cb.state # CLOSED /\ cb'.state = CLOSED) => cb'.failure_count = 0
    /\ (cb.state = CLOSED /\ cb'.state # CLOSED) => cb'.failure_count # 0
    /\ cb'.state # cb.state => cb'.success_count = 0

C18_CountersResetAmended == []C18_Inv /\ [][C18_Step]_vars

C18_Witness ==
    /\ cb.state = HALF_OPEN /\ cb.failure_count = 2 /\ cb.success_count = 1
    /\ failure_threshold = 2 /\ success_threshold = 2

\* C19 (step part): an AllowRequest() or State() call never changes failure_count or
\* opened_at; it leaves every field unchanged when the state is Closed, HalfOpen, or Open
\* with the cooldown not elapsed, and otherwise only moves Open to HalfOpen; State()
\* returns the stored state after the call, AllowRequest() whether that is not Open; and
\* the same call made again at once returns the same answer and changes nothing.
C19_Step ==
    (AllowStep \/ StateStep) =>
        /\ cb'.failure_count = cb.failure_count
        /\ cb'.opened_at = cb.opened_at
        /\ (cb.state # OPEN \/ ~CooldownElapsed) => cb' = cb
        /\ cb' # cb => (cb.state = OPEN /\ CooldownElapsed /\ cb'.state = HALF_OPEN)
        /\ last'.observed = cb'.state
        /\ last'.observed \in {"closed", "open", "half_open"}
        /\ AllowStep => (last'.allowed <=> cb'.state # OPEN)
        /\ state_after(cb', now', cooldown_seconds) = cb'
        /\ maybe_transition_to_half_open(cb', now', cooldown_seconds) = cb'
        /\ AllowStep => (AllowNow' <=> last'.allowed)

----------------------------------------------------------------------------
(* C11, C12: what a logical call does to the breaker, and when *)

\* A step of the logical call under observation.
CallStep == call' # call

\* C11: a call whose physical attempt got no response ends at once with that error, on
\* whichever attempt: no further request, no sleep after it, no outcome recorded; and the
\* call leaves the breaker as it found it (none of its steps after the admission check
\* touches the breaker, so this is: its admission check did not find the breaker Open).
C11_ConnectionFailure ==
    call.error = "ConnectionError"
        => /\ call.pc = "done" /\ Outcomes = 0
           /\ call.requests = call.sleeps + 1
           /\ call.found # OPEN

\* C11 (amended, state part): a call whose physical attempt got no response has ended,
\* recorded no outcome and did not sleep after that attempt.
C11_Inv ==
    call.error = "ConnectionError"
        => /\ call.pc = "done" /\ Outcomes = 0
           /\ call.requests = call.sleeps + 1
           /\ call.requests = call.attempt /\ call.requests <= retry_attempts

\* C11 (amended, step part): the attempt that gets no response ends the call and leaves
\* the breaker and its history untouched; so do the retried attempts and sleeps before
\* it; and the admission check of the call leaves failure_count, success_count and
\* opened_at as they were and changes the state only from Open, cooldown elapsed, to
\* HalfOpen.
C11_Step ==
    /\ (CallStep /\ call'.error = "ConnectionError")
          => /\ call.pc = "loop" /\ call'.pc = "done"
             /\ call'.requests = call.requests + 1 /\ call'.sleeps = call.sleeps
             /\ cb' = cb /\ UNCHANGED hist
    /\ (CallStep /\ call.pc \in {"loop", "sleeping"} /\ call'.pc \in {"loop", "sleeping"})
          => (cb' = cb /\ UNCHANGED hist)
    /\ (CallStep /\ call.pc \in {"idle", "done"})
          => /\ call'.found = cb.state
             /\ cb'.failure_count = cb.failure_count
             /\ cb'.success_count = cb.success_count
             /\ cb'.opened_at = cb.opened_at
             /\ cb'.state # cb.state
                   => (cb.state = OPEN /\ CooldownElapsed /\ cb'.state = HALF_OPEN)
             /\ cb.state \in {CLOSED, HALF_OPEN} => (cb' = cb /\ call'.pc = "loop")

C11_ConnectionFailureAmended == []C11_Inv /\ [][C11_Step]_vars

\* A call that found the breaker Open with the cooldown elapsed, was retried once and then
\* lost the connection: the breaker is HalfOpen, with no outcome from this call.
C11_Witness ==
    /\ call.error = "ConnectionError" /\ call.requests = 2 /\ call.sleeps = 1
    /\ call.found = OPEN /\ cb.state = HALF_OPEN /\ last.op = "allow_request"

\* C12 (step part): the call calls AllowRequest() in its first step only, before any
\* request; its later steps never call it and never fail with ADOUnavailableError,
\* whatever the breaker's state has become; and the step that records its outcome is
\* the one that receives the response of its terminal attempt.
C12_Step ==
    /\ (CallStep /\ call.pc \in {"idle", "done"})
          => (AllowStep /\ call'.requests = 0 /\ Outcomes' = 0)
    /\ (CallStep /\ call.pc \in {"loop", "sleeping"})
          => (~AllowStep /\ call'.error # "ADOUnavailableError")
    /\ (CallStep /\ (SuccessStep \/ FailureStep))
          => /\ call'.pc = "done" /\ call'.requests = call.requests + 1
             /\ call'.status # 0 /\ Outcomes = 0 /\ Outcomes' = 1

\* C12 (state part): while the call is still attempting or sleeping it has recorded no
\* outcome, and a call that has recorded its outcome has issued a request.
C12_Inv ==
    /\ call.pc \in {"loop", "sleeping"} => Outcomes = 0
    /\ Outcomes >= 1 => (call.pc = "done" /\ Outcomes = 1 /\ call.requests >= 1)
    /\ call.error = "ADOUnavailableError" => call.requests = 0

\* C12: a logical call calls AllowRequest() exactly once, before its first request; once
\* admitted it issues its remaining attempts whatever concurrent calls do to the
\* breaker; and it records its single outcome only after its own terminal attempt.
C12_AdmittedOnce == []C12_Inv /\ [][C12_Step]_vars

----------------------------------------------------------------------------
(* C13, C14, C20: the sliding window of the limiter *)

\* A step that called RateLimiter.check.
CheckStep == checked'.seq # checked.seq

\* C13 (step part): a Check(key) at time now returns true and records now as the last
\* timestamp of the key when fewer than max_requests allowed checks of that key happened
\* less than window_seconds before now, and returns false when at least max_requests
\* did.
C13_Step ==
    CheckStep =>
        LET k == checked'.key
            n == Len(requests'[k])
        IN  /\ k \in UserKeys /\ checked'.at = now
            /\ Len(log[k]) < max_requests
                  => (checked'.allowed /\ n >= 1 /\ requests'[k][n] = now)
            /\ Len(log[k]) >= max_requests => ~checked'.allowed

\* C13: for one key and sequential checks, a check is allowed exactly when fewer than
\* max_requests allowed checks of the key are less than window_seconds old (with
\* max_requests = 2 and window_seconds = 3: allowed at 0 and 1, denied at 2, allowed
\* at 4).
C13_SlidingWindow == [][C13_Step]_vars

\* The third check, at time 2, denied after the allowed checks at 0 and 1.
C13_Witness ==
    /\ max_requests = 2 /\ window_seconds = 3 /\ now = 2
    /\ checked.key = "oid-1" /\ checked.at = 2 /\ ~checked.allowed
    /\ requests["oid-1"] = <<0, 1>> /\ log["oid-1"] = <<0, 1>>

\* C14 (state part): the timestamps stored for a key are those of a limiter that was
\* given the checks of that key only.
C14_Inv == \A k \in UserKeys : requests[k] = alone[k][k]

\* C14 (step part): a check of one key leaves the timestamps of every other key as they
\* were, and returns what the limiter that sees this key only returns.
C14_Step ==
    CheckStep =>
        LET k == checked'.key
        IN  /\ \A j \in UserKeys \ {k} : requests'[j] = requests[j]
            /\ checked'.allowed
                  = check(alone[k], k, now, max_requests, window_seconds).allowed

\* C14: the checks of a key are answered as if the other keys did not exist.
C14_KeysIndependent == []C14_Inv /\ [][C14_Step]_vars

\* One key is allowed while the quota of the other is exhausted.
C14_Witness ==
    /\ max_requests = 2 /\ window_seconds = 3
    /\ Len(log["oid-1"]) = 2 /\ requests["oid-1"] = <<0, 1>>
    /\ checked.key = "anonymous" /\ checked.allowed /\ checked.at = 2 /\ now = 2
    /\ requests["anonymous"] = <<2>>

\* C20: a check at time now prunes only the timestamps older than now - window_seconds:
\* a timestamp t = now - window_seconds is not pruned and counts toward max_requests.
C20_Step ==
    CheckStep =>
        LET old == requests[checked'.key]
        IN  /\ \A t \in Range(old) :
                  t \in checked'.pruned <=> now - t > window_seconds
            /\ checked'.allowed
                  <=> Cardinality({i \in DOMAIN old : now - old[i] <= window_seconds})
                         < max_requests

C20_BoundaryKept == [][C20_Step]_vars

\* C20 (amended): a check at time now prunes the timestamps that are window_seconds old
\* or older: a timestamp t = now - window_seconds is pruned and does not count toward
\* max_requests; the timestamps with t > now - window_seconds are kept and count.
C20_StepAmended ==
    CheckStep =>
        LET old == requests[checked'.key]
        IN  /\ \A t \in Range(old) :
                  t \in checked'.pruned <=> now - t >= window_seconds
            /\ checked'.allowed
                  <=> Cardinality({i \in DOMAIN old : now - old[i] < window_seconds})
                         < max_requests

C20_BoundaryPruned == [][C20_StepAmended]_vars

\* A check allowed because the one stored timestamp was exactly window_seconds old.
C20_Witness ==
    /\ max_requests = 1 /\ window_seconds = 2 /\ checked.allowed
    /\ checked.pruned = {checked.at - window_seconds}
    /\ requests[checked.key] = <<checked.at>>

----------------------------------------------------------------------------
(* C15: the rate-limit check of a tool invocation *)

\* A step of the tool invocation under observation that is not a step of its client call.
ToolStep == tool' # tool

\* C15 (state part): an invocation calls Check at most once and has called it before it
\* begins a client call; a rate-limited invocation has ended, having called Check once
\* and begun no client call.
C15_Inv ==
    /\ tool.checks <= 1
    /\ tool.pc \in {"ready", "calling"} => tool.checks = 1
    /\ tool.calls >= 1 => tool.checks = 1
    /\ tool.result = "rate_limited"
          => (tool.pc = "done" /\ tool.checks = 1 /\ tool.calls = 0)

\* C15 (step part): the invocation whose Check returns false returns the rate-limit
\* payload in that step, which calls no breaker method, issues no request and leaves the
\* breaker as it was; and every breaker method call and every request of an invocation
\* comes after its Check.
C15_Step ==
    /\ (ToolStep /\ CheckStep)
          => /\ tool.pc \in {"idle", "done"} /\ tool'.checks = 1 /\ tool'.calls = 0
             /\ checked'.key = tool'.user_key
             /\ (tool'.result = "rate_limited") <=> ~checked'.allowed
    /\ (ToolStep /\ tool'.result = "rate_limited")
          => /\ CheckStep /\ ~checked'.allowed
             /\ cb' = cb /\ UNCHANGED hist /\ call' = IdleCall
    /\ (AllowStep \/ SuccessStep \/ FailureStep \/ call'.requests > call.requests)
          => (tool.checks = 1 /\ tool'.checks = 1 /\ tool'.pc = "calling")

\* An invocation that has ended called Check exactly once.
C15_ExactlyOnce == tool.pc = "done" => tool.checks = 1

\* C15: in every tool handler Check is called exactly once per invocation and before any
\* client call; when it returns false the handler returns the rate-limit payload having
\* called no breaker method and issued no request.
C15_RateLimitFirst == [](C15_Inv /\ C15_ExactlyOnce) /\ [][C15_Step]_vars

\* An invocation that has ended called Check once, or was rejected before the check
\* (context or project not accepted) with the error payload and no client call.
C15_OnceUnlessRejected ==
    tool.pc = "done"
        => \/ tool.checks = 1
           \/ tool.checks = 0 /\ tool.calls = 0 /\ tool.result = "error"

\* The rejected invocation touches neither the limiter nor the breaker.
C15_RejectedStep ==
    (ToolStep /\ tool'.pc = "done" /\ tool'.checks = 0)
        => (UNCHANGED limiter /\ cb' = cb /\ UNCHANGED hist /\ call' = IdleCall)

\* C15 (amended): as C15, with Check called at most once per invocation: exactly once
\* unless the handler rejects the invocation before the check.
C15_RateLimitFirstAmended ==
    [](C15_Inv /\ C15_OnceUnlessRejected) /\ [][C15_Step /\ C15_RejectedStep]_vars

\* A rate-limited get_run_failure_logs invocation, after an invocation whose client call
\* opened the breaker.
C15_Witness ==
    /\ tool.result = "rate_limited" /\ tool.name = "get_run_failure_logs"
    /\ tool.checks = 1 /\ tool.calls = 0 /\ ~checked.allowed
    /\ checked.key = tool.user_key /\ Len(requests[tool.user_key]) = max_requests
    /\ cb.state = OPEN /\ cb.failure_count = 1 /\ trip.from = CLOSED
    /\ call = IdleCall

----------------------------------------------------------------------------
(* C29: bounds of the two counters *)

\* C29: with failure_threshold >= 1 and success_threshold >= 1, in every reachable state
\* and whatever the order in which the callers' breaker calls take the lock:
\* failure_count < failure_threshold while Closed, failure_count <= failure_threshold in
\* every state, success_count < success_threshold while HalfOpen, and success_count = 0
\* while Closed or Open.
C29_CounterBounds ==
    (failure_threshold >= 1 /\ success_threshold >= 1) =>
        /\ cb.state = CLOSED => cb.failure_count < failure_threshold
        /\ cb.failure_count <= failure_threshold
        /\ cb.state = HALF_OPEN => cb.success_count < success_threshold
        /\ cb.state \in {CLOSED, OPEN} => cb.success_count = 0

\* A probe has succeeded and one more is needed, after failure_threshold failures.
C29_Witness ==
    /\ failure_threshold >= 2 /\ success_threshold >= 2
    /\ cb.state = HALF_OPEN
    /\ cb.success_count = success_threshold - 1
    /\ cb.failure_count = failure_threshold
    /\ last.op = "record_success"

----------------------------------------------------------------------------
(* C25: a success while Closed restarts the count of failures *)

\* The step in which the observed call receives its terminal response.
TerminalStep ==
    /\ call.pc = "loop" /\ call'.pc = "done"
    /\ call'.requests = call.requests + 1
    /\ call'.error \in {"none", "HTTPError"}

\* C25 (state part): only the failures recorded since the last success count toward
\* failure_threshold: while fewer than failure_threshold failures have been recorded
\* since the breaker was last Closed with failure_count = 0, it is Closed and
\* failure_count is the number of those failures.
C25_Inv ==
    (streak >= 0 /\ streak < failure_threshold)
        => (cb.state = CLOSED /\ cb.failure_count = streak)

\* C25 (step part): RecordSuccess() while Closed sets failure_count to 0 and changes
\* nothing else, and begins a new count; and every terminal response with status below
\* 500, 404 and a last-attempt 429 included, records a success.
C25_Step ==
    /\ (SuccessStep /\ cb.state = CLOSED)
          => (cb' = [cb EXCEPT !.failure_count = 0] /\ streak' = 0)
    /\ (TerminalStep /\ call'.status < 500)
          => /\ SuccessStep
             /\ call'.successes = call.successes + 1 /\ call'.failures = call.failures
             /\ cb.state = CLOSED => (cb'.state = CLOSED /\ cb'.failure_count = 0)

C25_SuccessResetsCount == []C25_Inv /\ [][C25_Step]_vars

\* A last-attempt 429 has recorded a success, and failure_threshold - 1 failures after
\* it have left the breaker Closed.
C25_Witness ==
    /\ failure_threshold >= 2
    /\ call.pc = "done" /\ call.status = 429 /\ call.error = "HTTPError"
    /\ call.successes = 1 /\ call.failures = 0
    /\ call.requests = retry_attempts /\ retry_attempts >= 2
    /\ last.op = "record_failure"
    /\ streak = failure_threshold - 1
    /\ cb.state = CLOSED /\ cb.failure_count = failure_threshold - 1

----------------------------------------------------------------------------
(* C23: the probe while HalfOpen *)

\* C23: while the breaker is HalfOpen at most one request is admitted as the probe: once
\* AllowRequest() has returned true in HalfOpen, the AllowRequest() calls of the other
\* callers return false until that probe's outcome has been recorded.  Stated of two
\* AllowRequest() calls with no breaker call between them: when the first found the
\* breaker HalfOpen and returned true, the second returns false.
C23_Step ==
    (AllowStep /\ last.op = "allow_request" /\ last.observed = HALF_OPEN /\ last.allowed)
        => ~last'.allowed

C23_SingleProbe == [][C23_Step]_vars

----------------------------------------------------------------------------
(* C28: the breaker recovers *)

\* A failed call while the clock can still run through a whole cool-down: from then on
\* the terminal responses of the calls have status below 500.
RecordFailureEarly ==
    /\ now < MaxTime - MaxCooldown
    /\ RecordFailure

NextRecovery == Tick \/ AllowRequest \/ State \/ RecordSuccess \/ RecordFailureEarly

\* The breaker while time keeps advancing, calls keep being made and each call admitted
\* comes back with a terminal response below 500: the clock, the admission check and the
\* recording of a success are never put off for ever.
SpecRecovery ==
    /\ InitBreaker
    /\ [][NextRecovery]_vars
    /\ WF_vars(Tick)
    /\ WF_vars(AllowRequest)
    /\ WF_vars(RecordSuccess)

\* C28 (step part): from Open, once cooldown_seconds have elapsed the next AllowRequest()
\* admits a call.
C28_Step ==
    (AllowStep /\ cb.state = OPEN /\ CooldownElapsed)
        => (last'.allowed /\ cb'.state = HALF_OPEN)

\* C28: the breaker has no terminal state: the step part, and an Open breaker eventually
\* returns to Closed while time advances, calls are attempted and their terminal
\* responses have status below 500.
C28_NoTerminalState ==
    /\ [][C28_Step]_vars
    /\ (cb.state = OPEN) ~> (cb.state = CLOSED)

\* A breaker opened by failures has sat out its cool-down and a probe has closed it.
C28_Witness ==
    /\ cooldown_seconds >= 1 /\ failure_threshold >= 1 /\ success_threshold >= 1
    /\ trip.from # "none" /\ now - trip.at >= cooldown_seconds
    /\ last.op = "record_success"
    /\ cb.state = CLOSED /\ cb.failure_count = 0

----------------------------------------------------------------------------
(* C21, C22, C30: the limiter under concurrent callers *)

\* The number of checks of key k that returned True with a recorded timestamp in lo..hi.
RECURSIVE GrantedBetween(_, _, _)
GrantedBetween(k, lo, hi) ==
    IF lo > hi THEN 0 ELSE granted[k][lo] + GrantedBetween(k, lo + 1, hi)

\* The same for the interval (a, a + window_seconds].
GrantedIn(k, a) ==
    GrantedBetween(k, IF a + 1 > 0 THEN a + 1 ELSE 0,
                      IF a + window_seconds < MaxTime THEN a + window_seconds ELSE MaxTime)

\* C21: for any key and any interval (a, a + window_seconds], at most max_requests checks
\* of that key whose recorded timestamp falls in the interval return True, under any
\* interleaving of concurrent callers, a caller delayed between reading the clock and
\* acquiring the lock included.
C21_WindowQuota ==
    \A k \in UserKeys, a \in (0 - window_seconds)..MaxTime : GrantedIn(k, a) <= max_requests

\* C22: for every key the stored timestamps are in non-decreasing order after any
\* sequence of checks, concurrent checks in which one caller reads the clock before
\* another caller and appends after it included.
C22_Chronological ==
    \A k \in UserKeys : \A i, j \in DOMAIN requests[k] :
        i < j => requests[k][i] <= requests[k][j]

\* A step in which the check of caller c returns False.
DeniedStep(c) == thread[c].pc = "locked" /\ thread'[c].pc = "denied"

\* What a check of key k returns when made with the store reqs and the clock reading t.
AllowedAt(reqs, k, t) == check(reqs, k, t, max_requests, window_seconds).allowed

\* C30 (state part): for every key the number of stored timestamps never exceeds
\* max_requests (max_requests >= 0), after any interleaving of checks.
C30_Inv == \A k \in UserKeys : Len(requests[k]) <= max_requests

\* C30 (step part): a denied check records no new timestamp: the stored list of its key
\* loses only timestamps that have expired, the other keys are untouched, and the key is
\* allowed again at exactly the clock readings at which it was before the check.
C30_Step ==
    \A c \in Callers : DeniedStep(c) =>
        LET k == thread[c].user_key
            old == requests[k]
            new == requests'[k]
        IN  /\ new = SelectSeq(old, LAMBDA x : x \in Range(new))
            /\ \A x \in Range(old) \ Range(new) : now - x >= window_seconds
            /\ \A j \in UserKeys \ {k} : requests'[j] = requests[j]
            /\ granted' = granted
            /\ \A t \in now..(MaxTime + window_seconds) :
                  AllowedAt(requests', k, t) = AllowedAt(requests, k, t)

C30_DeniedRecordsNothing == []C30_Inv /\ [][C30_Step]_vars

\* A check has been denied on a full list while another caller, delayed since an earlier
\* clock reading, waits for the lock.
C30_Witness ==
    \E c, d \in Callers :
        /\ thread[c].pc = "denied"
        /\ thread[d].pc = "read" /\ thread[d].t < now
        /\ max_requests >= 1
        /\ Len(requests[thread[d].user_key]) = max_requests

----------------------------------------------------------------------------
(* C24: one breaker and one limiter per process *)

\* C24: the process-wide CircuitBreaker and RateLimiter are each constructed at most
\* once: every caller, callers that race on first use included, gets the same object,
\* and no outcome or timestamp is recorded on an object that later calls do not see.
C24_ConstructedOnce ==
    \A g \in Singletons :
        /\ lazy[g].built <= 1
        /\ \A c \in Callers : lazy[g].caller[c].got \in {0, lazy[g].global}
        /\ lazy[g].used \subseteq {lazy[g].global}

----------------------------------------------------------------------------
(* C26: get_text and _request_with_retry run the same protocol *)

\* C26: for the same breaker state, retry_attempts, retry_delay and sequence of responses
\* (status and Retry-After), get_text and _request_with_retry make the same sequence of
\* AllowRequest, request, sleep and RecordSuccess/RecordFailure steps, leave the breaker
\* in the same state and end with the same kind of outcome.
C26_SameProtocol == paths.text = paths.json

\* Both calls were admitted by a HalfOpen breaker, retried after a sleep and ended on a
\* last-attempt 429 that closed the breaker.
C26_Witness ==
    /\ paths.json.pc = "done" /\ paths.text.pc = "done"
    /\ paths.text.outcome = "HTTPError" /\ paths.text.resp = 429
    /\ paths.text.attempt = retry_attempts /\ retry_attempts >= 2
    /\ cb.state = OPEN /\ paths.text.cb.state = CLOSED
    /\ \E n \in 1..(MaxRetryAfter + MaxRetryDelay + 1) :
          Step("sleep", n) \in Range(paths.text.steps)

----------------------------------------------------------------------------
(* C27: no lock is held across a request or a sleep *)

\* The caller is waiting for its physical request to return, or sleeping before the
\* next attempt.
InIO(c) == thread[c].pc \in {"requesting", "sleeping"}

\* The caller is inside the locked body of a breaker method.
InBreakerMethod(c) ==
    thread[c].pc \in {"in_allow_request", "in_state", "in_record_success",
                      "in_record_failure"}

\* C27: no caller holds the breaker's or the limiter's lock while it issues a physical
\* request or sleeps: a lock is held exactly by a caller inside the locked body of one
\* AllowRequest, State, RecordSuccess, RecordFailure or Check call, so a caller that
\* wants a lock while every other caller is in I/O or asleep can take it at once.
C27_NoLockAcrossIO ==
    /\ \A c \in Callers : InIO(c) => (locks.limiter # c /\ locks.breaker # c)
    /\ \A c \in Callers : locks.limiter = c <=> thread[c].pc = "locked"
    /\ \A c \in Callers : locks.breaker = c <=> InBreakerMethod(c)
    /\ \A d \in Callers :
          (\A c \in Callers \ {d} : InIO(c)) =>
              /\ thread[d].pc = "read" => ENABLED AcquireLimiter(d)
              /\ thread[d].pc \in {"allowed", "got_success", "got_failure", "idle"}
                    => ENABLED AcquireBreaker(d)

\* One caller sleeps between two attempts while the other is inside record_failure,
\* holding the breaker's lock.
C27_Witness ==
    \E c, d \in Callers :
        /\ thread[c].pc = "sleeping" /\ thread[c].attempt >= 1
        /\ thread[d].pc = "in_record_failure" /\ locks.breaker = d
        /\ locks.limiter = "free"

----------------------------------------------------------------------------
(* C31: the success of a call admitted before the breaker opened *)

\* The call under observation was admitted while the breaker was Closed: it found the
\* breaker Closed at its admission check and is now receiving its terminal response.
AdmittedWhileClosed == call.pc = "loop" /\ call.found = CLOSED

\* C31: the breaker leaves HalfOpen for Closed only on the success of a call that was
\* admitted while it was HalfOpen.  Stated of the call under observation: when it was
\* admitted while the breaker was Closed and records its success after the breaker has
\* opened and half-opened, that RecordSuccess() does not count toward success_threshold
\* and does not close the breaker.
C31_Step ==
    (CallStep /\ SuccessStep /\ AdmittedWhileClosed /\ cb.state = HALF_OPEN)
        => (cb'.state = HALF_OPEN /\ cb'.success_count = cb.success_count)

C31_StaleSuccessIgnored == [][C31_Step]_vars

----------------------------------------------------------------------------
(* C32: no outcome without a request *)

\* The call recorded a breaker outcome as step i of its steps.
RecordedAt(run, i) == run.steps[i][1] \in {"record_success", "record_failure"}

\* The call had issued a request before step i, and has received a response.
RequestedBefore(run, i) ==
    /\ run.resp # -1
    /\ \E j \in 1..(i - 1) : run.steps[j][1] = "request"

\* C32: for every retry_attempts, retry_attempts <= 0 included, an admitted call records
\* a breaker outcome only after it has issued at least one physical request and
\* received a response: neither _request_with_retry nor get_text calls
\* RecordSuccess()/RecordFailure() in a call that issued no request.
C32_OutcomeNeedsRequest ==
    \A p \in {"json", "text"} :
        \A i \in 1..Len(paths[p].steps) :
            RecordedAt(paths[p], i) => RequestedBefore(paths[p], i)

====
